---- MODULE Spec2Model ----
(***************************************************************************)
(* dovewarden: the replication scheduling core.                            *)
(*                                                                         *)
(*   - the priority queue (InMemoryQueue.Enqueue / Dequeue / Stats) over a *)
(*     Redis sorted set, with ZADD LT and ZPOPMIN as its two commands;     *)
(*   - the worker pool (WorkerPool.fetcher / worker / Stop), with the      *)
(*     stop channel and the capacity-1 jobs channel;                       *)
(*   - the sync handler (DoveadmEventHandler.Handle) and the last-sync     *)
(*     store;                                                              *)
(*   - the background reconciler (BackgroundReplicationService).           *)
(*                                                                         *)
(* Scores are floats in the program (seconds / factor).  Here the clock    *)
(* counts whole ticks, factors are kept doubled (1 = 0.5, 2 = 1.0,         *)
(* 4 = 2.0) and a stored score is 4 * ticks / doubled factor (twice the     *)
(* program's quotient), so that every score of the model is an exact       *)
(* integer and comparisons are exact.                                      *)
(***************************************************************************)
EXTENDS Integers, Sequences, FiniteSets, TLC

\* ------------------------------------------------------------------ bounds
\* largest wall-clock value
MaxClock == 3
\* number of queue-API calls of each kind issued by the test clients
MaxOps == 3
\* number of failures (sync errors, listing errors, backend errors) the
\* environment injects into a run of the pool
MaxFails == 1
\* number of sync requests the handler sends in a run
MaxSyncs == 3
\* number of times the reconciler's ticker fires in a run
MaxTicks == 2

\* ------------------------------------------------------------- parameters
Users == {"a", "b"}
NoUser == ""
\* lexicographic order of the member strings (the sorted set's tie-break)
Rank(u) == IF u = "a" THEN 1 ELSE 2
\* priority factors, doubled: -1.0, 0, 0.5, 1.0, 2.0
Factors == {-2, 0, 1, 2, 4}
\* the factor 1.0 (doubled)
FactorOne == 2
\* the operation counters are uint64; the model keeps CounterBits of them
CounterBits == 1
CounterMod == 2 ^ CounterBits
Consumers == {"c1", "c2"}
\* numWorkers
NumWorkers == 2
Workers == 1..NumWorkers
\* capacity of jobsCh
JobsCap == 1
\* the reconciler's threshold, in clock ticks
Threshold == 2
\* the goroutines that call WorkerPool.Stop
Stoppers == {"s1", "s2"}
\* the order in which ListUsers returns the users
UserList == <<"a", "b">>

VARIABLES
    now,            \* wall clock read by time.Now()
    pending,        \* the sorted set {ns}:sync_tasks, a set of <<member, score>>
    enqueueCount,   \* InMemoryQueue.enqueueCount
    dequeueCount,   \* InMemoryQueue.dequeueCount
    \* history of the queue-API calls made by the test clients
    enqOk,          \* user -> number of Enqueue calls that returned nil
    created,        \* user -> number of those that found the user absent
    returned,       \* user -> number of Dequeue calls that returned the user
    minSince,       \* user -> least t / f' of the Enqueue calls since the user was last dequeued (0: none)
    got,            \* consumer -> what its latest Dequeue call returned ("-": no call yet)
    last,           \* the last queue-API call and the state it started from
    \* worker pool
    stopCh,         \* WorkerPool.stopCh is closed
    jobsCh,         \* WorkerPool.jobsCh: [buf: the buffered users, closed: BOOLEAN]
    fetcher,        \* the fetcher goroutine: [pc, user]
    worker,         \* the worker goroutines: worker id -> [pc, user]
    activeCount,    \* WorkerPool.activeCount
    \* handler and reconciler
    lastSync,       \* user -> {ns}:last_replication:{user} (0: key absent)
    recon,          \* the reconciler goroutine: [pc, todo]
    \* environment
    failsLeft,      \* failures the environment may still inject
    envQuiet,       \* the producers have stopped enqueuing
    \* history of the handler calls
    started,        \* user -> parity of the number of Handle calls started
    cursor,         \* user -> {ns}:state:{user}, the stored sync cursor (0: key absent)
    born,           \* user -> clock value and factor [t, f] of the one Enqueue call that made its latest entry (t = 0: none, or coalesced since)
    stopper,        \* caller of WorkerPool.Stop -> its position in Stop
    ctxDone,        \* the context passed to WorkerPool.Start is cancelled
    taken,          \* user -> the score its entry had when the fetcher last dequeued it (0: not recorded)
    hnd,            \* worker -> locals of its Handle call: [state, resp, cw] (cursor read, cursor returned by the sync, cursor write issued)
    syncs,          \* number of h.client.Sync calls made
    okCalls,        \* number of Handle calls that returned nil
    timeWrites,     \* number of SetLastReplicationTime calls issued
    cursorWrites,   \* number of SetReplicationState calls issued
    prevNew,        \* user -> cursor returned by its latest successful sync (0: none, or empty)
    seen,           \* the reads of the latest reconciler iteration: [rd, ok] (last-sync read, Enqueue call)
    pass,           \* the current reconciler pass: [enq, start, clean]
    prev,           \* the reconciler pass completed before the current one
    lastRepl,       \* user -> the string stored under {ns}:last_replication:{user} by the store API (<<>>: key absent)
    stateTtl,       \* user -> time-to-live left of {ns}:state:{user}, in units of ten days (0: key absent)
    timeTtl,        \* user -> time-to-live left of the last-replication key of the user, in units of ten days (0: key absent)
    wrote,          \* user -> the instant of the latest successful SetLastReplicationTime call whose key has not expired: [set, t]
    answer,         \* the latest read of the store API: [op, user, val, err]
    resp,           \* the latest response of POST /events: [req, ok, status, calls] (the request, whether the backend answered, the status code, the Enqueue calls made)
    mainPc,         \* main: "init", "wait" (listening for the signal), "shutdown", "exit"
    evPc,           \* the goroutine serving the events listener: "none", "start", "serving", "closed"
    metPc,          \* the goroutine serving the metrics mux: "none", "start", "serving", "closed"
    readyFlag,      \* readyFlag of main (0 = not ready, 1 = ready)
    ready,          \* the latest response of GET /readyz: [status, health, bound, down] (the status code, the health check result, whether the events listener was bound and shutdown had begun when the handler ran)
    svc,            \* BackgroundReplicationService: [stopCh, doneCh, ticker, tick] (stopCh closed, doneCh closed, the ticker exists, a tick waits in ticker.C)
    svcStart,       \* the caller of BackgroundReplicationService.Start: "none", "spawned" (the goroutine is created), "returned"
    svcStop,        \* caller of BackgroundReplicationService.Stop -> its position in Stop
    counts,         \* the counters of the current runReplication call: [listed, enqueued, skipped, errors, reads] (reads: the failed last-sync reads among the errors)
    svcHist         \* history of the service: [passes, ticks, dropped, closes, stopped, late] (runReplication calls begun, ticks fired, ticks dropped, close(stopCh) executed, Stop was called after Start, a runReplication call began after such a Stop call)

queueVars == <<now, pending, enqueueCount, dequeueCount>>
histVars == <<enqOk, created, returned, minSince, got, last, born>>
poolVars == <<stopCh, jobsCh, fetcher, worker, activeCount>>
syncVars == <<lastSync, recon>>
envVars == <<failsLeft, envQuiet>>
callVars == <<started>>
\* the handler's stores, the Stop callers, the lifetime context, observations
storeVars == <<cursor, hnd, syncs, okCalls, timeWrites, cursorWrites, prevNew>>
stopVars == <<stopper>>
ctxVars == <<ctxDone>>
obsVars == <<taken, seen, pass, prev>>
\* the keys of the store as the store API writes them, with their time-to-live
kvVars == <<lastRepl, stateTtl, timeTtl, wrote, answer>>
\* the HTTP servers of the daemon
httpVars == <<resp>>
\* main and the goroutines it starts for its servers
mainVars == <<mainPc, evPc, metPc, readyFlag, ready>>
\* the reconciler service: its channels and ticker, the callers of Start and
\* Stop, the counts of the current pass, the history of its passes
svcVars == <<svc, svcStart, svcStop, counts, svcHist>>
auxVars == <<storeVars, stopVars, ctxVars, obsVars, kvVars, httpVars, mainVars, svcVars>>

\* ------------------------------------------------------------ sorted set
Members(z) == {e[1] : e \in z}
ScoreOf(z, u) == (CHOOSE e \in z : e[1] = u)[2]
Min2(x, y) == IF x < y THEN x ELSE y

\* plain ZADD: the new score always replaces the current one
ZAddOverwrite(z, m, s) == {e \in z : e[1] # m} \cup {<<m, s>>}

\* an insert that never looks for the member
ZAddAppend(z, m, s) == z \cup {<<m, s>>}

\* ZADD key LT score member: add when absent, lower the score when present
\* and the new score is less than the current one, otherwise nothing.
ZAddLT(z, m, s) ==
    IF m \in Members(z)
    THEN {IF e[1] = m /\ s < e[2] THEN <<m, s>> ELSE e : e \in z}
    ELSE z \cup {<<m, s>>}

\* a pop that orders by member alone
ZPopFirstMember(z) == CHOOSE e \in z : \A x \in z : Rank(e[1]) <= Rank(x[1])

\* ZPOPMIN key: the entry of least score, ties by member order
ZPopMin(z) ==
    CHOOSE e \in z : \A x \in z :
        \/ e[2] < x[2]
        \/ e[2] = x[2] /\ Rank(e[1]) <= Rank(x[1])

\* ---------------------------------------------------------------- queue
\* a score that multiplies by the factor
ScoreProduct(t, f) ==
    LET pf == IF f <= 0 THEN FactorOne ELSE f
    IN t * pf

\* score := timestamp / priorityFactor, a non-positive factor counting as 1.0
Score(t, f) ==
    LET pf == IF f <= 0 THEN FactorOne ELSE f
    IN (4 * t) \div pf

Inc(c) == (c + 1) % CounterMod

\* InMemoryQueue.Enqueue; ok = FALSE is a backend error of the ZADD command
Enqueue(u, f, ok) ==
    IF ok
    THEN /\ pending' = ZAddLT(pending, u, Score(now, f))
         /\ enqueueCount' = Inc(enqueueCount)
    ELSE UNCHANGED <<pending, enqueueCount>>

\* the value InMemoryQueue.Dequeue returns; ok = FALSE is a backend error
DequeueResult(ok) ==
    IF ok /\ pending # {} THEN ZPopMin(pending)[1] ELSE NoUser

\* a Dequeue that reads the least entry and leaves it in the set (ZRANGE 0 0)
DequeuePeek(ok) ==
    IF ok /\ pending # {}
    THEN /\ pending' = pending
         /\ dequeueCount' = Inc(dequeueCount)
    ELSE UNCHANGED <<pending, dequeueCount>>

\* a Dequeue that counts every call the backend answered
DequeueCountAll(ok) ==
    IF ok
    THEN /\ pending' = IF pending # {} THEN pending \ {ZPopMin(pending)} ELSE pending
         /\ dequeueCount' = Inc(dequeueCount)
    ELSE UNCHANGED <<pending, dequeueCount>>

\* InMemoryQueue.Dequeue
Dequeue(ok) ==
    IF ok /\ pending # {}
    THEN /\ pending' = pending \ {ZPopMin(pending)}
         /\ dequeueCount' = Inc(dequeueCount)
    ELSE UNCHANGED <<pending, dequeueCount>>

\* ---------------------------------------------------------------- clock
ClockAdvance ==
    /\ now < MaxClock
    /\ now' = now + 1
    /\ UNCHANGED <<pending, enqueueCount, dequeueCount>>
    /\ UNCHANGED <<histVars, poolVars, syncVars, envVars, callVars>>
    /\ UNCHANGED auxVars

\* the wall clock is set back (time.Now() is not monotonic across reads)
ClockRegress ==
    /\ \E t \in 1..MaxClock : t < now /\ now' = t
    /\ UNCHANGED <<pending, enqueueCount, dequeueCount>>
    /\ UNCHANGED <<histVars, poolVars, syncVars, envVars, callVars>>
    /\ UNCHANGED auxVars

\* ------------------------------------------------- clients of the queue API
NoCall == [op |-> "none", ok |-> FALSE, user |-> NoUser, score |-> 0,
           before |-> {}, enq |-> 0, deq |-> 0]

\* t / f' as the contract states it: f' = f when f > 0, else 1.0
Quotient(t, f) == IF f > 0 THEN (4 * t) \div f ELSE (4 * t) \div 2

NotBorn == [t |-> 0, f |-> 0]

\* a client calls Enqueue(u, f) (obs: the call is recorded in born)
ClientEnqueue(u, f, ok, obs) ==
    /\ enqOk["a"] + enqOk["b"] < MaxOps
    /\ Enqueue(u, f, ok)
    /\ UNCHANGED <<now, dequeueCount>>
    /\ enqOk' = IF ok THEN [enqOk EXCEPT ![u] = @ + 1] ELSE enqOk
    /\ created' = IF ok /\ u \notin Members(pending)
                  THEN [created EXCEPT ![u] = @ + 1] ELSE created
    /\ minSince' = IF ok
                   THEN [minSince EXCEPT ![u] =
                            IF @ = 0 THEN Quotient(now, f) ELSE Min2(@, Quotient(now, f))]
                   ELSE minSince
    /\ last' = [op |-> "enq", ok |-> ok, user |-> u, score |-> Score(now, f),
                before |-> pending, enq |-> enqueueCount, deq |-> dequeueCount]
    /\ born' = IF ~ok \/ ~obs THEN born
               ELSE IF u \notin Members(pending)
                    THEN [born EXCEPT ![u] = [t |-> now, f |-> f]]
                    ELSE [born EXCEPT ![u] = NotBorn]
    /\ UNCHANGED <<returned, got>>
    /\ UNCHANGED <<poolVars, syncVars, envVars, callVars>>
    /\ UNCHANGED auxVars

\* a producer calls Enqueue(u, f)
ProducerEnqueue(u, f, ok) == ClientEnqueue(u, f, ok, FALSE)

\* a consumer calls Dequeue()
ConsumerDequeue(c, ok) ==
    /\ Dequeue(ok)
    /\ UNCHANGED <<now, enqueueCount>>
    /\ LET r == DequeueResult(ok) IN
        /\ returned' = IF r # NoUser THEN [returned EXCEPT ![r] = @ + 1] ELSE returned
        /\ minSince' = IF r # NoUser THEN [minSince EXCEPT ![r] = 0] ELSE minSince
        /\ got' = [got EXCEPT ![c] = r]
        /\ last' = [op |-> "deq", ok |-> ok, user |-> r, score |-> 0,
                    before |-> pending, enq |-> enqueueCount, deq |-> dequeueCount]
    /\ UNCHANGED <<enqOk, created, born>>
    /\ UNCHANGED <<poolVars, syncVars, envVars, callVars>>
    /\ UNCHANGED auxVars

vars == <<now, pending, enqueueCount, dequeueCount,
          enqOk, created, returned, minSince, got, last,
          stopCh, jobsCh, fetcher, worker, activeCount,
          lastSync, recon, failsLeft, envQuiet, started, cursor, born, stopper, ctxDone, taken, hnd, syncs, okCalls, timeWrites, cursorWrites, prevNew, seen, pass, prev, lastRepl, stateTtl, timeTtl, wrote, answer, resp, mainPc, evPc, metPc, readyFlag, ready, svc, svcStart, svcStop, counts, svcHist>>

\* ------------------------------------------------- the store API and its keys
\* Instants are counted in half seconds since the Unix epoch, so that an
\* instant may carry a sub-second part; a stored value is the string
\* strconv.FormatInt writes.
\* time.Time{} (year 1, a whole number of seconds before the epoch)
ZeroTime == -124
\* the instants handed to SetLastReplicationTime
Instants == {ZeroTime, -21, -3, 0, 1, 21}
\* ttl := 30 * 24 * time.Hour, in units of ten days
Ttl == 3

DigitChar(d) == <<"0", "1", "2", "3", "4", "5", "6", "7", "8", "9">>[d + 1]
DigitValue(c) == CHOOSE d \in 0..9 : DigitChar(d) = c

RECURSIVE FormatNat(_)
FormatNat(n) ==
    IF n < 10 THEN <<DigitChar(n)>>
    ELSE Append(FormatNat(n \div 10), DigitChar(n % 10))

\* strconv.FormatInt(n, 10)
FormatInt(n) == IF n < 0 THEN <<"-">> \o FormatNat(-n) ELSE FormatNat(n)

RECURSIVE ParseNat(_)
ParseNat(s) ==
    IF Len(s) = 1 THEN DigitValue(s[1])
    ELSE 10 * ParseNat(SubSeq(s, 1, Len(s) - 1)) + DigitValue(s[Len(s)])

\* strconv.ParseInt(s, 10, 64) of a string FormatInt wrote
ParseInt(s) == IF s[1] = "-" THEN -ParseNat(Tail(s)) ELSE ParseNat(s)

\* a conversion to seconds that rounds to the nearest second
UnixNearest(t) == (t + 1) \div 2

\* t.Unix(): the whole seconds since the epoch, the sub-second part dropped
Unix(t) == t \div 2

\* time.Unix(sec, 0)
TimeUnix(sec) == 2 * sec

\* t.Truncate(time.Second)
Truncate(t) == t - (t % 2)

NoWrite == [set |-> FALSE, t |-> 0]
NoAnswer == [op |-> "none", user |-> NoUser, val |-> 0, err |-> FALSE]

\* InMemoryQueue.SetLastReplicationTime(ctx, u, t); ok = FALSE: the SET fails
StoreSetTime(u, t, ok) ==
    /\ IF ok
       THEN /\ lastRepl' = [lastRepl EXCEPT ![u] = FormatInt(Unix(t))]
            /\ timeTtl' = [timeTtl EXCEPT ![u] = Ttl]
            /\ wrote' = [wrote EXCEPT ![u] = [set |-> TRUE, t |-> t]]
       ELSE UNCHANGED <<lastRepl, timeTtl, wrote>>
    /\ UNCHANGED <<stateTtl, answer>>
    /\ UNCHANGED <<queueVars, histVars, poolVars, syncVars, envVars, callVars>>
    /\ UNCHANGED <<storeVars, stopVars, ctxVars, svcVars, obsVars, httpVars, mainVars>>

\* InMemoryQueue.GetLastReplicationTime(ctx, u); ok = FALSE: the GET fails
StoreGetTime(u, ok) ==
    /\ answer' = [op |-> "gettime", user |-> u, err |-> ~ok,
                  val |-> IF ok /\ lastRepl[u] # <<>>
                          THEN TimeUnix(ParseInt(lastRepl[u]))
                          ELSE ZeroTime]
    /\ UNCHANGED <<lastRepl, stateTtl, timeTtl, wrote>>
    /\ UNCHANGED <<queueVars, histVars, poolVars, syncVars, envVars, callVars>>
    /\ UNCHANGED <<storeVars, stopVars, ctxVars, svcVars, obsVars, httpVars, mainVars>>

\* InMemoryQueue.SetReplicationState(ctx, u, s); ok = FALSE: the SET fails
StoreSetState(u, s, ok) ==
    /\ IF ok
       THEN /\ cursor' = [cursor EXCEPT ![u] = s]
            /\ stateTtl' = [stateTtl EXCEPT ![u] = Ttl]
       ELSE UNCHANGED <<cursor, stateTtl>>
    /\ UNCHANGED <<lastRepl, timeTtl, wrote, answer>>
    /\ UNCHANGED <<queueVars, histVars, poolVars, syncVars, envVars, callVars>>
    /\ UNCHANGED <<hnd, syncs, okCalls, timeWrites, cursorWrites, prevNew>>
    /\ UNCHANGED <<stopVars, ctxVars, svcVars, obsVars, httpVars, mainVars>>

\* InMemoryQueue.GetReplicationState(ctx, u); ok = FALSE: the GET fails
StoreGetState(u, ok) ==
    /\ answer' = [op |-> "getstate", user |-> u, err |-> ~ok,
                  val |-> IF ok THEN cursor[u] ELSE 0]
    /\ UNCHANGED <<lastRepl, stateTtl, timeTtl, wrote>>
    /\ UNCHANGED <<queueVars, histVars, poolVars, syncVars, envVars, callVars>>
    /\ UNCHANGED <<storeVars, stopVars, ctxVars, svcVars, obsVars, httpVars, mainVars>>

\* ten days pass: every key's time-to-live shrinks and a key whose
\* time-to-live runs out is deleted by the store
Elapse(ttl) == [u \in Users |-> IF ttl[u] > 0 THEN ttl[u] - 1 ELSE 0]
TenDaysPass ==
    /\ \E u \in Users : stateTtl[u] > 0 \/ timeTtl[u] > 0
    /\ stateTtl' = Elapse(stateTtl)
    /\ timeTtl' = Elapse(timeTtl)
    /\ cursor' = [u \in Users |-> IF stateTtl[u] = 1 THEN 0 ELSE cursor[u]]
    /\ lastRepl' = [u \in Users |-> IF timeTtl[u] = 1 THEN <<>> ELSE lastRepl[u]]
    /\ lastSync' = [u \in Users |-> IF timeTtl[u] = 1 THEN 0 ELSE lastSync[u]]
    /\ wrote' = [u \in Users |-> IF timeTtl[u] = 1 THEN NoWrite ELSE wrote[u]]
    /\ UNCHANGED <<recon, answer>>
    /\ UNCHANGED <<queueVars, histVars, poolVars, envVars, callVars>>
    /\ UNCHANGED <<hnd, syncs, okCalls, timeWrites, cursorWrites, prevNew>>
    /\ UNCHANGED <<stopVars, ctxVars, svcVars, obsVars, httpVars, mainVars>>

\* the store API called by test clients while time passes
StoreNext ==
    \/ \E u \in Users, t \in Instants, ok \in BOOLEAN : StoreSetTime(u, t, ok)
    \/ \E u \in Users, ok \in BOOLEAN : StoreGetTime(u, ok)
    \/ \E u \in Users, ok \in BOOLEAN : StoreSetState(u, 1, ok)
    \/ \E u \in Users, ok \in BOOLEAN : StoreGetState(u, ok)
    \/ TenDaysPass

\* ------------------------------------------------------------ POST /events
\* a request body: one that cannot be read, one that is not JSON, or a JSON
\* event with its event, fields.user and fields.cmd_name
Unreadable == [readable |-> FALSE, json |-> FALSE, event |-> "", user |-> NoUser, cmd |-> ""]
NotJson == [readable |-> TRUE, json |-> FALSE, event |-> "", user |-> NoUser, cmd |-> ""]
Requests ==
    {Unreadable, NotJson} \cup
    [readable : {TRUE}, json : {TRUE},
     event : {"", "imap_command_finished", "other"},
     user : Users \cup {NoUser},
     cmd : {"APPEND", "FETCH", "append", "APPEND ", "uid delete", "Select", ""}]

NoResp == [req |-> Unreadable, ok |-> TRUE, status |-> 0, calls |-> 0]

\* the event types with value true in events.AcceptedEvents
AcceptedEvents == {"imap_command_finished"}

\* the commands with value true in events.AcceptedCmdNames
AcceptedCmdNames ==
    {"APPEND", "CLOSE", "COPY", "CREATE", "DELETE", "DELETEACL", "EXPUNGE",
     "MOVE", "RENAME", "SETACL", "SETMETADATA", "SETQUOTA", "STORE",
     "SUBSCRIBE", "UID COPY", "UID DELETE", "UID EXPUNGE", "UID MOVE",
     "UID STORE", "UNSUBSCRIBE"}

LowerCase == "abcdefghijklmnopqrstuvwxyz"
UpperCase == "ABCDEFGHIJKLMNOPQRSTUVWXYZ"

\* strings.ToUpper on one ASCII character: a lower-case letter becomes its
\* capital, every other character (space included) is kept
UpperChar(c) ==
    IF \E i \in 1..Len(LowerCase) : SubSeq(LowerCase, i, i) = c
    THEN LET i == CHOOSE j \in 1..Len(LowerCase) : SubSeq(LowerCase, j, j) = c
         IN  SubSeq(UpperCase, i, i)
    ELSE c

\* strings.ToUpper, character by character
RECURSIVE ToUpper(_)
ToUpper(str) ==
    IF Len(str) = 0 THEN ""
    ELSE UpperChar(SubSeq(str, 1, 1)) \o ToUpper(SubSeq(str, 2, Len(str)))

\* events.Filter with the command looked up as it was sent
FilterExact(r) ==
    IF ~r.json THEN "SyntaxError"
    ELSE IF r.event = "" THEN "ErrEmptyEvent"
    ELSE IF r.event \notin AcceptedEvents THEN "ErrInvalidEventType"
    ELSE IF r.user = NoUser THEN "ErrEmptyUsername"
    ELSE IF r.cmd \notin AcceptedCmdNames THEN "ErrInvalidCmdName"
    ELSE "pass"

\* events.Filter: "pass" or the error it returns
Filter(r) ==
    IF ~r.json THEN "SyntaxError"
    ELSE IF r.event = "" THEN "ErrEmptyEvent"
    ELSE IF r.event \notin AcceptedEvents THEN "ErrInvalidEventType"
    ELSE IF r.user = NoUser THEN "ErrEmptyUsername"
    ELSE IF ToUpper(r.cmd) \notin AcceptedCmdNames THEN "ErrInvalidCmdName"
    ELSE "pass"

\* the *FilteredEvent events.Filter returns: nil with an error
NoEvent == [Event |-> "", Username |-> NoUser, CmdName |-> ""]
FilteredEvent(r) ==
    IF Filter(r) = "pass"
    THEN [Event |-> r.event, Username |-> r.user, CmdName |-> r.cmd]
    ELSE NoEvent

\* the status Server.handleEvents answers with
Status(r, ok) ==
    IF ~r.readable THEN 400
    ELSE IF Filter(r) # "pass" THEN 204
    ELSE IF ~ok THEN 500
    ELSE 202

\* Server.handleEvents; ok = FALSE: s.queue.Enqueue returns an error
HandleEvents(r, ok) ==
    /\ IF r.readable /\ Filter(r) = "pass"
       THEN Enqueue(r.user, FactorOne, ok)
       ELSE UNCHANGED <<pending, enqueueCount>>
    /\ resp' = [req |-> r, ok |-> ok, status |-> Status(r, ok),
                calls |-> IF r.readable /\ Filter(r) = "pass" THEN 1 ELSE 0]
    /\ UNCHANGED <<now, dequeueCount>>
    /\ UNCHANGED <<histVars, poolVars, syncVars, envVars, callVars>>
    /\ UNCHANGED <<storeVars, stopVars, ctxVars, svcVars, obsVars, kvVars, mainVars>>

\* the events server in front of the queue
EventsNext ==
    \/ ClockAdvance
    \/ \E r \in Requests, ok \in BOOLEAN : HandleEvents(r, ok)

\* ------------------------------------------------------------------- main
NoReady == [status |-> 0, health |-> TRUE, bound |-> FALSE, down |-> FALSE]

\* the events listener is bound (net.Listen returned) and the process runs
Bound == mainPc \in {"wait", "shutdown"}
\* the shutdown signal has been received
ShuttingDown == mainPc = "shutdown"

\* net.Listen, then the two goroutines are started; ok = FALSE: the bind
\* fails and main exits
MainListen(ok) ==
    /\ mainPc = "init"
    /\ mainPc' = IF ok THEN "wait" ELSE "exit"
    /\ evPc' = IF ok THEN "start" ELSE evPc
    /\ metPc' = IF ok THEN "start" ELSE metPc
    /\ UNCHANGED <<readyFlag, ready>>
    /\ UNCHANGED <<queueVars, histVars, poolVars, syncVars, envVars, callVars>>
    /\ UNCHANGED <<storeVars, stopVars, ctxVars, svcVars, obsVars, kvVars, httpVars>>

\* the events goroutine: atomic.StoreUint32(&readyFlag, 1), eventsHTTP.Serve(ln)
EventsServe ==
    /\ mainPc # "exit"
    /\ evPc = "start"
    /\ readyFlag' = 1
    /\ evPc' = "serving"
    /\ UNCHANGED <<mainPc, metPc, ready>>
    /\ UNCHANGED <<queueVars, histVars, poolVars, syncVars, envVars, callVars>>
    /\ UNCHANGED <<storeVars, stopVars, ctxVars, svcVars, obsVars, kvVars, httpVars>>

\* the metrics goroutine: metricsHTTP.ListenAndServe()
MetricsServe ==
    /\ mainPc # "exit"
    /\ metPc = "start"
    /\ metPc' = "serving"
    /\ UNCHANGED <<mainPc, evPc, readyFlag, ready>>
    /\ UNCHANGED <<queueVars, histVars, poolVars, syncVars, envVars, callVars>>
    /\ UNCHANGED <<storeVars, stopVars, ctxVars, svcVars, obsVars, kvVars, httpVars>>

\* sig := <-sigChan; atomic.StoreUint32(&readyFlag, 0)
MainSignal ==
    /\ mainPc = "wait"
    /\ mainPc' = "shutdown"
    /\ readyFlag' = 0
    /\ UNCHANGED <<evPc, metPc, ready>>
    /\ UNCHANGED <<queueVars, histVars, poolVars, syncVars, envVars, callVars>>
    /\ UNCHANGED <<storeVars, stopVars, ctxVars, svcVars, obsVars, kvVars, httpVars>>

\* the services are stopped, both servers are shut down and main returns
MainShutdown ==
    /\ mainPc = "shutdown"
    /\ mainPc' = "exit"
    /\ evPc' = "closed"
    /\ metPc' = "closed"
    /\ UNCHANGED <<readyFlag, ready>>
    /\ UNCHANGED <<queueVars, histVars, poolVars, syncVars, envVars, callVars>>
    /\ UNCHANGED <<storeVars, stopVars, ctxVars, svcVars, obsVars, kvVars, httpVars>>

\* the status the /readyz handler answers with; health: q.HealthCheck succeeds
ReadyStatus(flag, health) ==
    IF flag = 0 THEN 503
    ELSE IF ~health THEN 503
    ELSE 200

\* GET /readyz served by the metrics mux
Readyz(health) ==
    /\ metPc = "serving"
    /\ ready' = [status |-> ReadyStatus(readyFlag, health), health |-> health,
                 bound |-> Bound, down |-> ShuttingDown]
    /\ UNCHANGED <<mainPc, evPc, metPc, readyFlag>>
    /\ UNCHANGED <<queueVars, histVars, poolVars, syncVars, envVars, callVars>>
    /\ UNCHANGED <<storeVars, stopVars, ctxVars, svcVars, obsVars, kvVars, httpVars>>

\* POST /events served once the events goroutine serves the listener
EventsRequest(r, ok) == evPc = "serving" /\ HandleEvents(r, ok)

\* the daemon: main, its two servers and their clients
MainNext ==
    \/ \E ok \in BOOLEAN : MainListen(ok)
    \/ EventsServe
    \/ MetricsServe
    \/ MainSignal
    \/ MainShutdown
    \/ \E health \in BOOLEAN : Readyz(health)
    \/ \E r \in Requests, ok \in BOOLEAN : EventsRequest(r, ok)

\* no reconciler pass: the users it enqueued, the clock value at its start,
\* whether all its calls succeeded
NoPass == [enq |-> {}, start |-> 0, clean |-> FALSE]

\* NewBackgroundReplicationService: both channels open, no ticker yet
NoSvc == [stopCh |-> FALSE, doneCh |-> FALSE, ticker |-> FALSE, tick |-> FALSE]
\* var enqueuedCount, skippedCount, errorCount int, with no user listed
NoCounts == [listed |-> 0, enqueued |-> 0, skipped |-> 0, errors |-> 0, reads |-> 0]
NoHist == [passes |-> 0, ticks |-> 0, dropped |-> 0, closes |-> 0, stopped |-> FALSE, late |-> FALSE]

\* the locals of a Handle call before its first step
NoHandle == [state |-> 0, resp |-> 0, cw |-> FALSE]

\* NewInMemoryQueue, NewWorkerPool(q, n, logger), NewBackgroundReplicationService
InitPool(n) ==
    /\ now = 1
    /\ pending = {}
    /\ enqueueCount = 0
    /\ dequeueCount = 0
    /\ enqOk = [u \in Users |-> 0]
    /\ created = [u \in Users |-> 0]
    /\ returned = [u \in Users |-> 0]
    /\ minSince = [u \in Users |-> 0]
    /\ got = [c \in Consumers |-> "-"]
    /\ last = NoCall
    /\ stopCh = FALSE
    /\ jobsCh = [buf |-> <<>>, closed |-> FALSE]
    /\ fetcher = [pc |-> "check", user |-> NoUser]
    /\ worker = [w \in 1..n |-> [pc |-> "take", user |-> NoUser]]
    /\ activeCount = 0
    /\ lastSync = [u \in Users |-> 0]
    /\ recon = [pc |-> "start", todo |-> <<>>]
    /\ failsLeft = MaxFails
    /\ envQuiet = FALSE
    /\ started = [u \in Users |-> 0]
    /\ cursor = [u \in Users |-> 0]
    /\ born = [u \in Users |-> NotBorn]
    /\ stopper = [s \in Stoppers |-> "idle"]
    /\ ctxDone = FALSE
    /\ taken = [u \in Users |-> 0]
    /\ hnd = [w \in 1..n |-> NoHandle]
    /\ syncs = 0
    /\ okCalls = 0
    /\ timeWrites = 0
    /\ cursorWrites = 0
    /\ prevNew = [u \in Users |-> 0]
    /\ seen = [rd |-> TRUE, ok |-> TRUE]
    /\ pass = NoPass
    /\ prev = NoPass
    /\ lastRepl = [u \in Users |-> <<>>]
    /\ stateTtl = [u \in Users |-> 0]
    /\ timeTtl = [u \in Users |-> 0]
    /\ wrote = [u \in Users |-> NoWrite]
    /\ answer = NoAnswer
    /\ resp = NoResp
    /\ mainPc = "init"
    /\ evPc = "none"
    /\ metPc = "none"
    /\ readyFlag = 0
    /\ ready = NoReady
    /\ svc = NoSvc
    /\ svcStart = "none"
    /\ svcStop = [s \in Stoppers |-> "idle"]
    /\ counts = NoCounts
    /\ svcHist = NoHist

Init == InitPool(NumWorkers)

\* a pool of one worker
InitOne == InitPool(1)

QueueNext ==
    \/ ClockAdvance
    \/ ClockRegress
    \/ \E u \in Users, f \in Factors, ok \in BOOLEAN : ProducerEnqueue(u, f, ok)
    \/ \E c \in Consumers, ok \in BOOLEAN : ConsumerDequeue(c, ok)

SpecQueue == Init /\ [][QueueNext]_vars

\* the queue with its backend available, one consumer, every Enqueue recorded
ScoreNext ==
    \/ ClockAdvance
    \/ ClockRegress
    \/ \E u \in Users, f \in Factors : ClientEnqueue(u, f, TRUE, TRUE)
    \/ ConsumerDequeue("c1", TRUE)

SpecScore == Init /\ [][ScoreNext]_vars

SpecStore == Init /\ [][StoreNext]_vars

SpecEvents == Init /\ [][EventsNext]_vars

SpecMain == Init /\ [][MainNext]_vars

\* ------------------------------------------------------------ environment
\* a call fails (ok = FALSE) only while the environment has failures left
MayFail(ok) == ok \/ failsLeft > 0
Spend(n) == failsLeft' = failsLeft - n
Cost(ok) == IF ok THEN 0 ELSE 1

\* a producer (event pipeline, test workload) enqueues u with factor f
EventEnqueue(u, f, ok) ==
    /\ ~envQuiet
    /\ MayFail(ok)
    /\ Enqueue(u, f, ok)
    /\ Spend(Cost(ok))
    /\ UNCHANGED <<now, dequeueCount, envQuiet>>
    /\ UNCHANGED <<histVars, poolVars, syncVars, callVars>>
    /\ UNCHANGED auxVars

\* the producers stop
EnvQuiesce ==
    /\ ~envQuiet
    /\ envQuiet' = TRUE
    /\ UNCHANGED <<queueVars, failsLeft>>
    /\ UNCHANGED <<histVars, poolVars, syncVars, callVars>>
    /\ UNCHANGED auxVars

\* ---------------------------------------------------------------- fetcher
Exited == [pc |-> "exited", user |-> NoUser]

\* top of the loop: select on stopCh with a default case
FetcherCheck ==
    /\ fetcher.pc = "check"
    /\ IF stopCh
       THEN /\ jobsCh' = [jobsCh EXCEPT !.closed = TRUE]
            /\ fetcher' = Exited
       ELSE /\ fetcher' = [fetcher EXCEPT !.pc = "dequeue"]
            /\ UNCHANGED jobsCh
    /\ UNCHANGED <<stopCh, worker, activeCount>>
    /\ UNCHANGED <<queueVars, histVars, syncVars, envVars, callVars>>
    /\ UNCHANGED auxVars

\* a fetcher that gives up on a backend error: it closes jobsCh and returns
FetcherFetchFatal(ok, obs) ==
    /\ fetcher.pc = "dequeue"
    /\ MayFail(ok)
    /\ Dequeue(ok)
    /\ fetcher' = IF ~ok THEN Exited
                  ELSE IF DequeueResult(ok) = NoUser
                       THEN [pc |-> "emptywait", user |-> NoUser]
                       ELSE [pc |-> "send", user |-> DequeueResult(ok)]
    /\ jobsCh' = IF ok THEN jobsCh ELSE [jobsCh EXCEPT !.closed = TRUE]
    /\ Spend(Cost(ok))
    /\ UNCHANGED <<now, enqueueCount, envQuiet>>
    /\ UNCHANGED <<stopCh, worker, activeCount>>
    /\ UNCHANGED <<histVars, syncVars, callVars>>
    /\ UNCHANGED auxVars

\* wp.queue.Dequeue(dequeueCtx) and the branch taken on its result
\* (obs: the score of the entry removed is recorded in taken)
FetcherFetch(ok, obs) ==
    /\ fetcher.pc = "dequeue"
    /\ MayFail(ok)
    /\ Dequeue(ok)
    /\ fetcher' = IF ~ok THEN [pc |-> "errwait", user |-> NoUser]
                  ELSE IF DequeueResult(ok) = NoUser
                       THEN [pc |-> "emptywait", user |-> NoUser]
                       ELSE [pc |-> "send", user |-> DequeueResult(ok)]
    /\ Spend(Cost(ok))
    /\ UNCHANGED <<now, enqueueCount, envQuiet>>
    /\ UNCHANGED <<stopCh, jobsCh, worker, activeCount>>
    /\ UNCHANGED <<histVars, syncVars, callVars>>
    /\ taken' = IF obs /\ DequeueResult(ok) # NoUser
                THEN [taken EXCEPT ![DequeueResult(ok)] = ZPopMin(pending)[2]]
                ELSE taken
    /\ UNCHANGED <<seen, pass, prev>>
    /\ UNCHANGED <<storeVars, stopVars, ctxVars, svcVars>>
    /\ UNCHANGED <<kvVars, httpVars, mainVars>>

FetcherDequeue(ok) == FetcherFetch(ok, FALSE)

\* the timer case of the two waits (100 ms after an error, 300 ms when empty)
FetcherTimer ==
    /\ fetcher.pc \in {"errwait", "emptywait"}
    /\ fetcher' = [fetcher EXCEPT !.pc = "check"]
    /\ UNCHANGED <<stopCh, jobsCh, worker, activeCount>>
    /\ UNCHANGED <<queueVars, histVars, syncVars, envVars, callVars>>
    /\ UNCHANGED auxVars

\* a fetcher that returns from a wait or the send leaving jobsCh open
FetcherStoppedOpen ==
    /\ fetcher.pc \in {"errwait", "emptywait", "send"}
    /\ stopCh
    /\ fetcher' = Exited
    /\ UNCHANGED <<stopCh, jobsCh, worker, activeCount>>
    /\ UNCHANGED <<queueVars, histVars, syncVars, envVars, callVars>>
    /\ UNCHANGED auxVars

\* the stopCh case of the two waits and of the send: close jobsCh and return
FetcherStopped ==
    /\ fetcher.pc \in {"errwait", "emptywait", "send"}
    /\ stopCh
    /\ jobsCh' = [jobsCh EXCEPT !.closed = TRUE]
    /\ fetcher' = Exited
    /\ UNCHANGED <<stopCh, worker, activeCount>>
    /\ UNCHANGED <<queueVars, histVars, syncVars, envVars, callVars>>
    /\ UNCHANGED auxVars

\* the fetcher forgets the dequeued user instead of handing it over
FetcherSendLose ==
    /\ fetcher.pc = "send"
    /\ fetcher' = [pc |-> "check", user |-> NoUser]
    /\ UNCHANGED <<stopCh, jobsCh, worker, activeCount>>
    /\ UNCHANGED <<queueVars, histVars, syncVars, envVars, callVars>>
    /\ UNCHANGED auxVars

\* a send that never blocks, as on a channel without a bound
FetcherSendUnbounded ==
    /\ fetcher.pc = "send"
    /\ Len(jobsCh.buf) < JobsCap + 1
    /\ jobsCh' = [jobsCh EXCEPT !.buf = Append(@, fetcher.user)]
    /\ fetcher' = [pc |-> "check", user |-> NoUser]
    /\ UNCHANGED <<stopCh, worker, activeCount>>
    /\ UNCHANGED <<queueVars, histVars, syncVars, envVars, callVars>>
    /\ UNCHANGED auxVars

\* wp.jobsCh <- username, possible while the buffer has room
FetcherSend ==
    /\ fetcher.pc = "send"
    /\ Len(jobsCh.buf) < JobsCap
    /\ jobsCh' = [jobsCh EXCEPT !.buf = Append(@, fetcher.user)]
    /\ fetcher' = [pc |-> "check", user |-> NoUser]
    /\ UNCHANGED <<stopCh, worker, activeCount>>
    /\ UNCHANGED <<queueVars, histVars, syncVars, envVars, callVars>>
    /\ UNCHANGED auxVars

\* the steps of the fetcher while stopCh is open and the backend answers
FetcherStep ==
    \/ FetcherCheck
    \/ FetcherDequeue(TRUE)
    \/ FetcherTimer
    \/ FetcherSend

\* ----------------------------------------------------------------- worker
Idle == [pc |-> "take", user |-> NoUser]

\* takeJob receives a user; the worker marks itself active and calls Handle
\* (obs: the start of the call is recorded in the history variable started)
WorkerTake(w, obs) ==
    /\ worker[w].pc = "take"
    /\ jobsCh.buf # <<>>
    /\ jobsCh' = [jobsCh EXCEPT !.buf = Tail(@)]
    /\ worker' = [worker EXCEPT ![w] = [pc |-> "handle", user |-> Head(jobsCh.buf)]]
    /\ activeCount' = activeCount + 1
    /\ started' = IF obs THEN [started EXCEPT ![Head(jobsCh.buf)] = 1 - @] ELSE started
    /\ UNCHANGED <<stopCh, fetcher>>
    /\ UNCHANGED <<queueVars, histVars, syncVars, envVars>>
    /\ UNCHANGED auxVars

\* a worker that returns as soon as it finds stopCh closed
WorkerExitOnStop(w) ==
    /\ worker[w].pc = "take"
    /\ stopCh
    /\ worker' = [worker EXCEPT ![w] = Exited]
    /\ UNCHANGED <<stopCh, jobsCh, fetcher, activeCount>>
    /\ UNCHANGED <<queueVars, histVars, syncVars, envVars, callVars>>
    /\ UNCHANGED auxVars

\* takeJob finds jobsCh closed and drained: the worker returns
WorkerExit(w) ==
    /\ worker[w].pc = "take"
    /\ jobsCh.buf = <<>>
    /\ jobsCh.closed
    /\ worker' = [worker EXCEPT ![w] = Exited]
    /\ UNCHANGED <<stopCh, jobsCh, fetcher, activeCount>>
    /\ UNCHANGED <<queueVars, histVars, syncVars, envVars, callVars>>
    /\ UNCHANGED auxVars

\* Handle returns nil: the sync succeeded and the last-sync time was written
\* (wr = FALSE: the write failed, which Handle logs and ignores)
HandleOk(w, wr) ==
    /\ worker[w].pc = "handle"
    /\ MayFail(wr)
    /\ lastSync' = IF wr THEN [lastSync EXCEPT ![worker[w].user] = now] ELSE lastSync
    /\ worker' = [worker EXCEPT ![w] = Idle]
    /\ activeCount' = activeCount - 1
    /\ Spend(Cost(wr))
    /\ UNCHANGED <<stopCh, jobsCh, fetcher, recon, envQuiet, started>>
    /\ UNCHANGED <<queueVars, histVars>>
    /\ UNCHANGED <<storeVars, stopVars, ctxVars, svcVars, obsVars>>
    /\ timeTtl' = IF wr THEN [timeTtl EXCEPT ![worker[w].user] = Ttl] ELSE timeTtl
    /\ UNCHANGED <<lastRepl, stateTtl, wrote, answer>>
    /\ UNCHANGED <<httpVars, mainVars>>

\* Handle returns the error of the sync call
HandleFail(w) ==
    /\ worker[w].pc = "handle"
    /\ failsLeft > 0
    /\ worker' = [worker EXCEPT ![w].pc = "requeue"]
    /\ Spend(1)
    /\ UNCHANGED <<stopCh, jobsCh, fetcher, activeCount, envQuiet, started>>
    /\ UNCHANGED <<queueVars, histVars, syncVars>>
    /\ UNCHANGED auxVars

\* the worker puts the failed user back with the score it was dequeued with
RequeueKeep(u, f, ok) ==
    /\ pending' = ZAddLT(pending, u, taken[u])
    /\ enqueueCount' = Inc(enqueueCount)

\* the worker drops the failed user
RequeueDrop(u, f, ok) == UNCHANGED <<pending, enqueueCount>>

\* the Enqueue call of the error path: wp.queue.Enqueue(ctx, username, 1.0)
Requeue(u, f, ok) == Enqueue(u, f, ok)

\* a worker that stays marked active after the requeue
WorkerRequeueStaysActive(w, ok) ==
    /\ worker[w].pc = "requeue"
    /\ MayFail(ok)
    /\ Requeue(worker[w].user, FactorOne, ok)
    /\ worker' = [worker EXCEPT ![w] = Idle]
    /\ Spend(Cost(ok))
    /\ UNCHANGED <<now, dequeueCount, envQuiet>>
    /\ UNCHANGED <<stopCh, jobsCh, fetcher, activeCount>>
    /\ UNCHANGED <<histVars, syncVars, callVars>>
    /\ UNCHANGED auxVars

\* after a failed Handle: requeue, mark inactive, next iteration
WorkerRequeue(w, ok) ==
    /\ worker[w].pc = "requeue"
    /\ MayFail(ok)
    /\ Requeue(worker[w].user, FactorOne, ok)
    /\ worker' = [worker EXCEPT ![w] = Idle]
    /\ activeCount' = activeCount - 1
    /\ Spend(Cost(ok))
    /\ UNCHANGED <<now, dequeueCount, envQuiet>>
    /\ UNCHANGED <<stopCh, jobsCh, fetcher>>
    /\ UNCHANGED <<histVars, syncVars, callVars>>
    /\ UNCHANGED auxVars

HandleReturn(w) == HandleOk(w, TRUE) \/ HandleFail(w)

\* the steps of a worker while jobsCh is open and the backend answers
WorkerStep(w) ==
    \/ WorkerTake(w, TRUE)
    \/ HandleReturn(w)
    \/ WorkerRequeue(w, TRUE)

\* WorkerPool.Stop closes stopCh unless it is closed already
StopSignal ==
    /\ ~stopCh
    /\ stopCh' = TRUE
    /\ UNCHANGED <<jobsCh, fetcher, worker, activeCount>>
    /\ UNCHANGED <<queueVars, histVars, syncVars, envVars, callVars>>
    /\ UNCHANGED auxVars

\* ------------------------------------------- DoveadmEventHandler.Handle
\* the steps of Handle, taken one at a time by concurrent workers

\* a handler that returns the error of the cursor read
HandleGetStrict(w, ok) ==
    /\ worker[w].pc = "handle"
    /\ MayFail(ok)
    /\ hnd' = [hnd EXCEPT ![w] = [state |-> IF ok THEN cursor[worker[w].user] ELSE 0,
                                  resp |-> 0, cw |-> FALSE]]
    /\ worker' = [worker EXCEPT ![w].pc = IF ok THEN "sync" ELSE "requeue"]
    /\ Spend(Cost(ok))
    /\ UNCHANGED <<stopCh, jobsCh, fetcher, activeCount, envQuiet>>
    /\ UNCHANGED <<cursor, syncs, okCalls, timeWrites, cursorWrites, prevNew>>
    /\ UNCHANGED <<queueVars, histVars, syncVars, callVars, stopVars, ctxVars, svcVars, obsVars>>
    /\ UNCHANGED <<kvVars, httpVars, mainVars>>

\* state, err := h.queue.GetReplicationState(ctx, username); on an error the
\* handler proceeds with the empty state
HandleGet(w, ok) ==
    /\ worker[w].pc = "handle"
    /\ MayFail(ok)
    /\ hnd' = [hnd EXCEPT ![w] = [state |-> IF ok THEN cursor[worker[w].user] ELSE 0,
                                  resp |-> 0, cw |-> FALSE]]
    /\ worker' = [worker EXCEPT ![w].pc = "sync"]
    /\ Spend(Cost(ok))
    /\ UNCHANGED <<stopCh, jobsCh, fetcher, activeCount, envQuiet>>
    /\ UNCHANGED <<cursor, syncs, okCalls, timeWrites, cursorWrites, prevNew>>
    /\ UNCHANGED <<queueVars, histVars, syncVars, callVars, stopVars, ctxVars, svcVars, obsVars>>
    /\ UNCHANGED <<kvVars, httpVars, mainVars>>

\* a handler that records the time of a failed sync
HandleSyncStamp(w, ok, empty) ==
    /\ worker[w].pc = "sync"
    /\ syncs < MaxSyncs
    /\ MayFail(ok)
    /\ syncs' = syncs + 1
    /\ LET new == IF empty THEN 0 ELSE syncs + 1 IN
        /\ hnd' = IF ok THEN [hnd EXCEPT ![w].resp = new] ELSE hnd
        /\ worker' = [worker EXCEPT ![w].pc =
                          IF ~ok THEN "requeue"
                          ELSE IF new # 0 THEN "setstate" ELSE "settime"]
        /\ prevNew' = IF ok THEN [prevNew EXCEPT ![worker[w].user] = new] ELSE prevNew
    /\ Spend(Cost(ok))
    /\ UNCHANGED <<stopCh, jobsCh, fetcher, activeCount, envQuiet>>
    /\ UNCHANGED <<cursor, okCalls, timeWrites, cursorWrites>>
    /\ lastSync' = IF ok THEN lastSync ELSE [lastSync EXCEPT ![worker[w].user] = now]
    /\ UNCHANGED <<queueVars, histVars, recon, callVars, stopVars, ctxVars, svcVars, obsVars>>
    /\ UNCHANGED <<kvVars, httpVars, mainVars>>

\* resp, err := h.client.Sync(ctx, username, h.destination, state): an error
\* is returned to the worker; a response carries a new cursor, or none
\* (empty = TRUE)
HandleSync(w, ok, empty) ==
    /\ worker[w].pc = "sync"
    /\ syncs < MaxSyncs
    /\ MayFail(ok)
    /\ syncs' = syncs + 1
    /\ LET new == IF empty THEN 0 ELSE syncs + 1 IN
        /\ hnd' = IF ok THEN [hnd EXCEPT ![w].resp = new] ELSE hnd
        /\ worker' = [worker EXCEPT ![w].pc =
                          IF ~ok THEN "requeue"
                          ELSE IF new # 0 THEN "setstate" ELSE "settime"]
        /\ prevNew' = IF ok THEN [prevNew EXCEPT ![worker[w].user] = new] ELSE prevNew
    /\ Spend(Cost(ok))
    /\ UNCHANGED <<stopCh, jobsCh, fetcher, activeCount, envQuiet>>
    /\ UNCHANGED <<cursor, okCalls, timeWrites, cursorWrites>>
    /\ UNCHANGED <<queueVars, histVars, syncVars, callVars, stopVars, ctxVars, svcVars, obsVars>>
    /\ UNCHANGED <<kvVars, httpVars, mainVars>>

\* a handler whose cursor write keeps the time-to-live of an existing key
HandleSetStateKeepTtl(w, ok) ==
    /\ worker[w].pc = "setstate"
    /\ MayFail(ok)
    /\ cursor' = IF ok THEN [cursor EXCEPT ![worker[w].user] = hnd[w].resp] ELSE cursor
    /\ cursorWrites' = cursorWrites + 1
    /\ hnd' = [hnd EXCEPT ![w].cw = TRUE]
    /\ worker' = [worker EXCEPT ![w].pc = "settime"]
    /\ Spend(Cost(ok))
    /\ UNCHANGED <<stopCh, jobsCh, fetcher, activeCount, envQuiet>>
    /\ UNCHANGED <<syncs, okCalls, timeWrites, prevNew>>
    /\ UNCHANGED <<queueVars, histVars, syncVars, callVars, stopVars, ctxVars, svcVars, obsVars>>
    /\ stateTtl' = IF ok /\ stateTtl[worker[w].user] = 0
                 THEN [stateTtl EXCEPT ![worker[w].user] = Ttl] ELSE stateTtl
    /\ UNCHANGED <<lastRepl, timeTtl, wrote, answer>>
    /\ UNCHANGED <<httpVars, mainVars>>

\* h.queue.SetReplicationState(ctx, username, resp.State), reached when
\* resp.State is not empty; a failure is logged and ignored
HandleSetState(w, ok) ==
    /\ worker[w].pc = "setstate"
    /\ MayFail(ok)
    /\ cursor' = IF ok THEN [cursor EXCEPT ![worker[w].user] = hnd[w].resp] ELSE cursor
    /\ cursorWrites' = cursorWrites + 1
    /\ hnd' = [hnd EXCEPT ![w].cw = TRUE]
    /\ worker' = [worker EXCEPT ![w].pc = "settime"]
    /\ Spend(Cost(ok))
    /\ UNCHANGED <<stopCh, jobsCh, fetcher, activeCount, envQuiet>>
    /\ UNCHANGED <<syncs, okCalls, timeWrites, prevNew>>
    /\ UNCHANGED <<queueVars, histVars, syncVars, callVars, stopVars, ctxVars, svcVars, obsVars>>
    /\ stateTtl' = IF ok THEN [stateTtl EXCEPT ![worker[w].user] = Ttl] ELSE stateTtl
    /\ UNCHANGED <<lastRepl, timeTtl, wrote, answer>>
    /\ UNCHANGED <<httpVars, mainVars>>

\* a handler that records the time only when it stored a cursor
HandleSetTimeIfCursor(w, ok) ==
    /\ worker[w].pc = "settime"
    /\ MayFail(ok)
    /\ lastSync' = IF ok /\ hnd[w].cw THEN [lastSync EXCEPT ![worker[w].user] = now]
                   ELSE lastSync
    /\ timeWrites' = IF hnd[w].cw THEN timeWrites + 1 ELSE timeWrites
    /\ okCalls' = okCalls + 1
    /\ worker' = [worker EXCEPT ![w] = Idle]
    /\ activeCount' = activeCount - 1
    /\ Spend(Cost(ok))
    /\ UNCHANGED <<stopCh, jobsCh, fetcher, recon, envQuiet>>
    /\ UNCHANGED <<cursor, hnd, syncs, cursorWrites, prevNew>>
    /\ UNCHANGED <<queueVars, histVars, callVars, stopVars, ctxVars, svcVars, obsVars>>
    /\ timeTtl' = IF ok /\ hnd[w].cw THEN [timeTtl EXCEPT ![worker[w].user] = Ttl] ELSE timeTtl
    /\ UNCHANGED <<lastRepl, stateTtl, wrote, answer>>
    /\ UNCHANGED <<httpVars, mainVars>>

\* a handler that returns the error of the last-sync write
HandleSetTimeStrict(w, ok) ==
    /\ worker[w].pc = "settime"
    /\ MayFail(ok)
    /\ lastSync' = IF ok THEN [lastSync EXCEPT ![worker[w].user] = now] ELSE lastSync
    /\ timeWrites' = timeWrites + 1
    /\ okCalls' = IF ok THEN okCalls + 1 ELSE okCalls
    /\ worker' = [worker EXCEPT ![w] = IF ok THEN Idle ELSE [@ EXCEPT !.pc = "requeue"]]
    /\ activeCount' = IF ok THEN activeCount - 1 ELSE activeCount
    /\ Spend(Cost(ok))
    /\ UNCHANGED <<stopCh, jobsCh, fetcher, recon, envQuiet>>
    /\ UNCHANGED <<cursor, hnd, syncs, cursorWrites, prevNew>>
    /\ UNCHANGED <<queueVars, histVars, callVars, stopVars, ctxVars, svcVars, obsVars>>
    /\ timeTtl' = IF ok THEN [timeTtl EXCEPT ![worker[w].user] = Ttl] ELSE timeTtl
    /\ UNCHANGED <<lastRepl, stateTtl, wrote, answer>>
    /\ UNCHANGED <<httpVars, mainVars>>

\* h.queue.SetLastReplicationTime(ctx, username, time.Now()), a failure being
\* logged and ignored; Handle returns nil and the worker marks itself inactive
HandleSetTime(w, ok) ==
    /\ worker[w].pc = "settime"
    /\ MayFail(ok)
    /\ lastSync' = IF ok THEN [lastSync EXCEPT ![worker[w].user] = now] ELSE lastSync
    /\ timeWrites' = timeWrites + 1
    /\ okCalls' = okCalls + 1
    /\ worker' = [worker EXCEPT ![w] = Idle]
    /\ activeCount' = activeCount - 1
    /\ Spend(Cost(ok))
    /\ UNCHANGED <<stopCh, jobsCh, fetcher, recon, envQuiet>>
    /\ UNCHANGED <<cursor, hnd, syncs, cursorWrites, prevNew>>
    /\ UNCHANGED <<queueVars, histVars, callVars, stopVars, ctxVars, svcVars, obsVars>>
    /\ timeTtl' = IF ok THEN [timeTtl EXCEPT ![worker[w].user] = Ttl] ELSE timeTtl
    /\ UNCHANGED <<lastRepl, stateTtl, wrote, answer>>
    /\ UNCHANGED <<httpVars, mainVars>>

\* ------------------------------------------------------- WorkerPool.Stop
\* wp.wg has reached zero: the fetcher and every worker have returned
AllExited == fetcher = Exited /\ \A w \in DOMAIN worker : worker[w] = Exited

\* close(wp.stopCh) was executed on the closed channel: the program panics
Panicked == \E s \in Stoppers : stopper[s] = "panic"

\* a goroutine calls Stop(ctx)
StopCall(s) ==
    /\ stopper[s] \in {"idle", "nil", "err"}
    /\ stopper' = [stopper EXCEPT ![s] = "select"]
    /\ UNCHANGED <<queueVars, histVars, poolVars, syncVars, envVars, callVars>>
    /\ UNCHANGED <<storeVars, ctxVars, svcVars, obsVars>>
    /\ UNCHANGED <<kvVars, httpVars, mainVars>>

\* the first select of Stop: case <-wp.stopCh (already closed) or default
StopSelect(s) ==
    /\ stopper[s] = "select"
    /\ stopper' = [stopper EXCEPT ![s] = IF stopCh THEN "wait" ELSE "close"]
    /\ UNCHANGED <<queueVars, histVars, poolVars, syncVars, envVars, callVars>>
    /\ UNCHANGED <<storeVars, ctxVars, svcVars, obsVars>>
    /\ UNCHANGED <<kvVars, httpVars, mainVars>>

\* the default branch: close(wp.stopCh), a panic when it is closed already
StopClose(s) ==
    /\ stopper[s] = "close"
    /\ stopper' = [stopper EXCEPT ![s] = IF stopCh THEN "panic" ELSE "wait"]
    /\ stopCh' = TRUE
    /\ UNCHANGED <<jobsCh, fetcher, worker, activeCount>>
    /\ UNCHANGED <<queueVars, histVars, syncVars, envVars, callVars>>
    /\ UNCHANGED <<storeVars, ctxVars, svcVars, obsVars>>
    /\ UNCHANGED <<kvVars, httpVars, mainVars>>

\* a Stop that does not wait for the goroutines
StopDoneEarly(s) ==
    /\ stopper[s] = "wait"
    /\ stopper' = [stopper EXCEPT ![s] = "nil"]
    /\ UNCHANGED <<queueVars, histVars, poolVars, syncVars, envVars, callVars>>
    /\ UNCHANGED <<storeVars, ctxVars, svcVars, obsVars>>
    /\ UNCHANGED <<kvVars, httpVars, mainVars>>

\* the second select of Stop, case <-done: wg.Wait() has returned
StopDone(s) ==
    /\ stopper[s] = "wait"
    /\ AllExited
    /\ stopper' = [stopper EXCEPT ![s] = "nil"]
    /\ UNCHANGED <<queueVars, histVars, poolVars, syncVars, envVars, callVars>>
    /\ UNCHANGED <<storeVars, ctxVars, svcVars, obsVars>>
    /\ UNCHANGED <<kvVars, httpVars, mainVars>>

\* a Stop whose expired context ends the workers where they stand
StopExpireKill(s) ==
    /\ stopper[s] = "wait"
    /\ stopper' = [stopper EXCEPT ![s] = "err"]
    /\ worker' = [w \in DOMAIN worker |-> Exited]
    /\ activeCount' = 0
    /\ UNCHANGED <<stopCh, jobsCh, fetcher>>
    /\ UNCHANGED <<queueVars, histVars, syncVars, envVars, callVars>>
    /\ UNCHANGED <<storeVars, ctxVars, svcVars, obsVars>>
    /\ UNCHANGED <<kvVars, httpVars, mainVars>>

\* the second select of Stop, case <-ctx.Done(): return ctx.Err()
StopExpire(s) ==
    /\ stopper[s] = "wait"
    /\ stopper' = [stopper EXCEPT ![s] = "err"]
    /\ UNCHANGED <<queueVars, histVars, poolVars, syncVars, envVars, callVars>>
    /\ UNCHANGED <<storeVars, ctxVars, svcVars, obsVars>>
    /\ UNCHANGED <<kvVars, httpVars, mainVars>>

\* ------------------------------------------------------ lifetime context
\* the context passed to WorkerPool.Start is cancelled
CtxCancel ==
    /\ ~ctxDone
    /\ ctxDone' = TRUE
    /\ UNCHANGED <<queueVars, histVars, poolVars, syncVars, envVars, callVars>>
    /\ UNCHANGED <<storeVars, stopVars, obsVars>>
    /\ UNCHANGED <<kvVars, httpVars, mainVars, svcVars>>

\* wp.queue.Dequeue(dequeueCtx) returns the context's error: brief backoff
FetcherDequeueCancelled ==
    /\ fetcher.pc = "dequeue"
    /\ ctxDone
    /\ fetcher' = [pc |-> "errwait", user |-> NoUser]
    /\ UNCHANGED <<stopCh, jobsCh, worker, activeCount>>
    /\ UNCHANGED <<queueVars, histVars, syncVars, envVars, callVars, auxVars>>

\* Handle(ctx, username) returns the context's error from the sync request
HandleCancelled(w) ==
    /\ worker[w].pc = "handle"
    /\ ctxDone
    /\ worker' = [worker EXCEPT ![w].pc = "requeue"]
    /\ UNCHANGED <<stopCh, jobsCh, fetcher, activeCount>>
    /\ UNCHANGED <<queueVars, histVars, syncVars, envVars, callVars, auxVars>>

\* ------------------------------------------------------------- reconciler
\* a runReplication whose listing error ends the goroutine
RunReplicationFatal(ok, obs) ==
    /\ recon.pc \in {"start", "wait"}
    /\ MayFail(ok)
    /\ recon' = IF ok THEN [pc |-> "pass", todo |-> UserList]
                ELSE [pc |-> "exit", todo |-> <<>>]
    /\ Spend(Cost(ok))
    /\ UNCHANGED <<pass, prev>>
    /\ UNCHANGED <<lastSync, envQuiet>>
    /\ UNCHANGED <<queueVars, histVars, poolVars, callVars>>
    /\ UNCHANGED <<storeVars, stopVars, ctxVars, taken, seen>>
    /\ UNCHANGED <<kvVars, httpVars, mainVars>>

\* a pass begins (at once after Start, then on each tick): ListUsers
\* (obs: the pass is recorded in pass and prev)
RunReplication(ok, obs) ==
    /\ recon.pc \in {"start", "wait"}
    /\ MayFail(ok)
    /\ recon' = IF ok THEN [pc |-> "pass", todo |-> UserList]
                ELSE [pc |-> "wait", todo |-> <<>>]
    /\ Spend(Cost(ok))
    /\ IF obs /\ ok
       THEN /\ prev' = pass
            /\ pass' = [enq |-> {}, start |-> now, clean |-> TRUE]
       ELSE UNCHANGED <<pass, prev>>
    /\ UNCHANGED <<lastSync, envQuiet>>
    /\ UNCHANGED <<queueVars, histVars, poolVars, callVars>>
    /\ UNCHANGED <<storeVars, stopVars, ctxVars, taken, seen>>
    /\ UNCHANGED <<kvVars, httpVars, mainVars>>

\* the same with the service's channels and counters left out of account
ReconBegin(ok, obs) == RunReplication(ok, obs) /\ UNCHANGED svcVars

ReconList(ok) == ReconBegin(ok, FALSE)

\* a user the previous pass enqueued is skipped as well
RecentDedup(u, rd) ==
    \/ rd /\ lastSync[u] # 0 /\ now - lastSync[u] < Threshold
    \/ u \in prev.enq

\* any user replicated before is skipped, however long ago
RecentAlways(u, rd) == rd /\ lastSync[u] # 0

\* the user was replicated within the threshold (rd = FALSE: the read of the
\* last-sync time failed and the zero time is used)
Recent(u, rd) == rd /\ lastSync[u] # 0 /\ now - lastSync[u] < Threshold

\* one iteration of the loop over the listed users
\* (obs: the iteration is recorded in seen and, when the pass is recorded, in pass)
RunUser(rd, ok, obs) ==
    /\ recon.pc = "pass"
    /\ failsLeft >= Cost(rd) + Cost(ok)
    /\ LET u == Head(recon.todo) IN
        /\ IF Recent(u, rd)
           THEN ok /\ UNCHANGED <<pending, enqueueCount>>
           ELSE Enqueue(u, FactorOne, ok)
        /\ IF obs
           THEN /\ seen' = [rd |-> rd, ok |-> ok]
                /\ pass' = IF pass.start = 0 THEN pass
                           ELSE [pass EXCEPT
                                   !.enq = IF ~Recent(u, rd) /\ ok THEN @ \cup {u} ELSE @,
                                   !.clean = @ /\ rd /\ ok]
           ELSE UNCHANGED <<seen, pass>>
    /\ recon' = IF Len(recon.todo) = 1 THEN [pc |-> "wait", todo |-> <<>>]
                ELSE [recon EXCEPT !.todo = Tail(@)]
    /\ Spend(Cost(rd) + Cost(ok))
    /\ UNCHANGED <<now, dequeueCount, lastSync, envQuiet>>
    /\ UNCHANGED <<histVars, poolVars, callVars>>
    /\ UNCHANGED <<storeVars, stopVars, ctxVars, taken, prev>>
    /\ UNCHANGED <<kvVars, httpVars, mainVars>>

\* the same with the service's channels and counters left out of account
ReconVisit(rd, ok, obs) == RunUser(rd, ok, obs) /\ UNCHANGED svcVars

ReconUser(rd, ok) == ReconVisit(rd, ok, FALSE)

ReconStep == ReconList(TRUE) \/ ReconUser(TRUE, TRUE)

\* ----------------------------------------------------- reconciler service
\* everything but the service's own state and the queue it enqueues into
SvcFrame ==
    /\ UNCHANGED <<now, dequeueCount, lastSync, envQuiet>>
    /\ UNCHANGED <<histVars, poolVars, callVars>>
    /\ UNCHANGED <<storeVars, stopVars, ctxVars, obsVars, kvVars, httpVars, mainVars>>

\* a step of a caller or of the ticker: the queue and the goroutine stay put
SvcAside == SvcFrame /\ UNCHANGED <<pending, enqueueCount, recon, failsLeft>>

\* counters that leave out a failed Enqueue
TallyReads(c, recent, rd, ok) ==
    [c EXCEPT !.errors = @ + Cost(rd),
              !.reads = @ + Cost(rd),
              !.skipped = @ + (IF recent THEN 1 ELSE 0),
              !.enqueued = @ + (IF ~recent /\ ok THEN 1 ELSE 0)]

\* the counters after the iteration for one user: errorCount++ for a failed
\* read of the last-sync time and for a failed Enqueue, skippedCount++ for a
\* recently replicated user, enqueuedCount++ after a successful Enqueue
Tally(c, recent, rd, ok) ==
    [c EXCEPT !.errors = @ + Cost(rd) + (IF ~recent /\ ~ok THEN 1 ELSE 0),
              !.reads = @ + Cost(rd),
              !.skipped = @ + (IF recent THEN 1 ELSE 0),
              !.enqueued = @ + (IF ~recent /\ ok THEN 1 ELSE 0)]

\* s.Start(ctx): go func() { ... }()
SvcStart ==
    /\ svcStart = "none"
    /\ svcStart' = "spawned"
    /\ UNCHANGED <<svc, svcStop, counts, svcHist>>
    /\ SvcAside

\* Start returns to its caller
SvcStartReturn ==
    /\ svcStart = "spawned"
    /\ svcStart' = "returned"
    /\ UNCHANGED <<svc, svcStop, counts, svcHist>>
    /\ SvcAside

\* a runReplication call begins: ListUsers; when the listing fails the call
\* returns the error at once
SvcRun(ok) ==
    /\ RunReplication(ok, FALSE)
    /\ counts' = IF ok THEN [NoCounts EXCEPT !.listed = Len(UserList)] ELSE counts
    /\ svcHist' = [svcHist EXCEPT !.passes = @ + 1, !.late = @ \/ svcHist.stopped]
    /\ UNCHANGED <<svcStart, svcStop>>

\* the goroutine's first statement: the initial pass; time.NewTicker follows
\* the return of runReplication
SvcInitial(ok) ==
    /\ svcStart # "none"
    /\ recon.pc = "start"
    /\ SvcRun(ok)
    /\ svc' = [svc EXCEPT !.ticker = ~ok]

\* the select of the loop, case <-ticker.C: a periodic pass
SvcPeriodic(ok) ==
    /\ recon.pc = "wait"
    /\ svc.tick
    /\ SvcRun(ok)
    /\ svc' = [svc EXCEPT !.tick = FALSE]

\* one iteration of the loop of runReplication; after the last one of the
\* initial pass the ticker is created
SvcUser(rd, ok) ==
    /\ RunUser(rd, ok, FALSE)
    /\ counts' = Tally(counts, Recent(Head(recon.todo), rd), rd, ok)
    /\ svc' = [svc EXCEPT !.ticker = @ \/ Len(recon.todo) = 1]
    /\ UNCHANGED <<svcStart, svcStop, svcHist>>

\* a ticker that runs from the moment the goroutine is created
SvcTickEarly ==
    /\ svcStart # "none"
    /\ recon.pc # "exit"
    /\ svcHist.ticks < MaxTicks
    /\ svc' = [svc EXCEPT !.tick = TRUE]
    /\ svcHist' = [svcHist EXCEPT !.ticks = @ + 1,
                                  !.dropped = @ + (IF svc.tick THEN 1 ELSE 0)]
    /\ UNCHANGED <<svcStart, svcStop, counts>>
    /\ SvcAside

\* the ticker fires: the tick is dropped when one waits in ticker.C already
SvcTick ==
    /\ svc.ticker
    /\ svcHist.ticks < MaxTicks
    /\ svc' = [svc EXCEPT !.tick = TRUE]
    /\ svcHist' = [svcHist EXCEPT !.ticks = @ + 1,
                                  !.dropped = @ + (IF svc.tick THEN 1 ELSE 0)]
    /\ UNCHANGED <<svcStart, svcStop, counts>>
    /\ SvcAside

\* the select of the loop, case <-s.stopCh: return, with the deferred
\* ticker.Stop() and close(s.doneCh)
SvcReturn ==
    /\ recon.pc = "wait"
    /\ svc.stopCh
    /\ recon' = [pc |-> "exit", todo |-> <<>>]
    /\ svc' = [svc EXCEPT !.doneCh = TRUE, !.ticker = FALSE]
    /\ UNCHANGED <<svcStart, svcStop, counts, svcHist>>
    /\ UNCHANGED <<pending, enqueueCount, failsLeft>>
    /\ SvcFrame

\* s.Stop(ctx): close(s.stopCh), a panic when it is closed already
SvcStop(s) ==
    /\ svcStop[s] \in {"idle", "nil", "err"}
    /\ svcStop' = [svcStop EXCEPT ![s] = IF svc.stopCh THEN "panic" ELSE "select"]
    /\ svc' = [svc EXCEPT !.stopCh = TRUE]
    /\ svcHist' = [svcHist EXCEPT !.closes = @ + (IF svc.stopCh THEN 0 ELSE 1),
                                  !.stopped = @ \/ svcStart # "none"]
    /\ UNCHANGED <<svcStart, counts>>
    /\ SvcAside

\* the select of Stop, case <-s.doneCh: return nil
SvcStopDone(s) ==
    /\ svcStop[s] = "select"
    /\ svc.doneCh
    /\ svcStop' = [svcStop EXCEPT ![s] = "nil"]
    /\ UNCHANGED <<svc, svcStart, counts, svcHist>>
    /\ SvcAside

\* the select of Stop, case <-ctx.Done(): return ctx.Err()
SvcStopExpire(s) ==
    /\ svcStop[s] = "select"
    /\ svcStop' = [svcStop EXCEPT ![s] = "err"]
    /\ UNCHANGED <<svc, svcStart, counts, svcHist>>
    /\ SvcAside

\* ------------------------------------------------------- specifications
\* the pool with its producers, stop and injected failures
Next ==
    \/ \E u \in Users, f \in Factors, ok \in BOOLEAN : EventEnqueue(u, f, ok)
    \/ FetcherCheck
    \/ \E ok \in BOOLEAN : FetcherDequeue(ok)
    \/ FetcherTimer
    \/ FetcherStopped
    \/ FetcherSend
    \/ \E w \in DOMAIN worker : WorkerTake(w, FALSE)
    \/ \E w \in DOMAIN worker : WorkerExit(w)
    \/ \E w \in DOMAIN worker, wr \in BOOLEAN : HandleOk(w, wr)
    \/ \E w \in DOMAIN worker : HandleFail(w)
    \/ \E w \in DOMAIN worker, ok \in BOOLEAN : WorkerRequeue(w, ok)
    \/ StopSignal

Spec == Init /\ [][Next]_vars

\* the running pool (no Stop), backend available, sync failures injected
LiveNext ==
    \/ \E u \in Users, f \in {1, 4} : EventEnqueue(u, f, TRUE)
    \/ EnvQuiesce
    \/ FetcherStep
    \/ \E w \in DOMAIN worker : WorkerStep(w)

Fairness ==
    /\ WF_vars(FetcherStep)
    /\ \A w \in Workers : WF_vars(w \in DOMAIN worker /\ WorkerStep(w))

SpecLive == InitOne /\ [][LiveNext]_vars /\ Fairness

\* the running pool of one worker with its producers; Dequeue may fail
FetchNext ==
    \/ \E u \in Users : EventEnqueue(u, FactorOne, TRUE)
    \/ EnvQuiesce
    \/ FetcherCheck
    \/ \E ok \in BOOLEAN : FetcherDequeue(ok)
    \/ FetcherTimer
    \/ FetcherSend
    \/ \E w \in DOMAIN worker : WorkerTake(w, FALSE)
    \/ \E w \in DOMAIN worker : HandleOk(w, TRUE)

\* the fetcher and the worker are scheduled, and the backend answers in the end
FetchFairness ==
    /\ WF_vars(FetcherStep)
    /\ WF_vars(\E w \in DOMAIN worker : WorkerTake(w, FALSE) \/ HandleOk(w, TRUE))

SpecFetch == InitOne /\ [][FetchNext]_vars /\ FetchFairness

\* the pool with its producers, running or stopping
PoolStopNext ==
    \/ \E u \in Users : EventEnqueue(u, FactorOne, TRUE)
    \/ FetcherCheck
    \/ FetcherDequeue(TRUE)
    \/ FetcherTimer
    \/ FetcherStopped
    \/ FetcherSend
    \/ \E w \in DOMAIN worker : WorkerTake(w, FALSE)
    \/ \E w \in DOMAIN worker : WorkerExit(w)
    \/ \E w \in DOMAIN worker : HandleOk(w, TRUE)
    \/ \E w \in DOMAIN worker : HandleFail(w)
    \/ \E w \in DOMAIN worker : WorkerRequeue(w, TRUE)

\* the steps of one Stop call
StopStep(s) ==
    \/ StopCall(s)
    \/ StopSelect(s)
    \/ StopClose(s)
    \/ StopDone(s)
    \/ StopExpire(s)

\* every goroutine of the pool and every Stop call keeps running; nothing
\* obliges the context of a Stop call to expire
StopFairness ==
    /\ WF_vars(FetcherStep \/ FetcherStopped)
    /\ \A w \in Workers : WF_vars(WorkerStep(w) \/ WorkerTake(w, FALSE) \/ WorkerExit(w))
    /\ \A s \in Stoppers : WF_vars(StopSelect(s) \/ StopClose(s) \/ StopDone(s))

\* Stop called by one goroutine, again and again
StopOneNext == PoolStopNext \/ StopStep("s1")

SpecStop == Init /\ [][StopOneNext]_vars /\ StopFairness

\* the same with a pool of one worker
StopOneWorkerFairness ==
    /\ WF_vars(FetcherStep \/ FetcherStopped)
    /\ WF_vars(WorkerStep(1) \/ WorkerTake(1, FALSE) \/ WorkerExit(1))
    /\ WF_vars(StopSelect("s1") \/ StopClose("s1") \/ StopDone("s1"))

SpecStopOneWorker == InitOne /\ [][StopOneNext]_vars /\ StopOneWorkerFairness

\* Stop called by two goroutines at once; a panic ends the program
StopTwoNext ==
    \/ ~Panicked /\ PoolStopNext
    \/ \E s \in Stoppers : ~Panicked /\ StopStep(s)

SpecStopTwo == Init /\ [][StopTwoNext]_vars /\ StopFairness

\* the running pool whose lifetime context may be cancelled; Stop is not
\* called.  A queue call made with the cancelled context fails or not, as
\* the client library has it; the sync request fails.
CtxNext ==
    \/ \E u \in Users : EventEnqueue(u, FactorOne, TRUE)
    \/ CtxCancel
    \/ FetcherCheck
    \/ FetcherDequeue(TRUE)
    \/ FetcherDequeueCancelled
    \/ FetcherTimer
    \/ FetcherSend
    \/ \E w \in DOMAIN worker : WorkerTake(w, FALSE)
    \/ \E w \in DOMAIN worker : ~ctxDone /\ HandleOk(w, TRUE)
    \/ \E w \in DOMAIN worker : HandleFail(w)
    \/ \E w \in DOMAIN worker : HandleCancelled(w)
    \/ \E w \in DOMAIN worker, ok \in BOOLEAN : WorkerRequeue(w, ok)

SpecCtx ==
    /\ Init /\ [][CtxNext]_vars
    /\ WF_vars(FetcherStep \/ FetcherDequeueCancelled)
    /\ \A w \in Workers :
        WF_vars(WorkerTake(w, FALSE) \/ HandleReturn(w) \/ HandleCancelled(w)
                \/ WorkerRequeue(w, TRUE))

\* the running pool of one worker, one user enqueued with factor 2.0, every
\* dequeued score recorded
RetryNext ==
    \/ ClockAdvance
    \/ EventEnqueue("a", 2 * FactorOne, TRUE)
    \/ FetcherCheck
    \/ FetcherFetch(TRUE, TRUE)
    \/ FetcherTimer
    \/ FetcherSend
    \/ \E w \in DOMAIN worker : WorkerTake(w, FALSE)
    \/ \E w \in DOMAIN worker : HandleOk(w, TRUE)
    \/ \E w \in DOMAIN worker : HandleFail(w)
    \/ \E w \in DOMAIN worker : WorkerRequeue(w, TRUE)

SpecRetry == InitOne /\ [][RetryNext]_vars

\* the running pool of one worker with Handle taken step by step; the state
\* store, the sync endpoint and the time store may fail
HandleNext ==
    \/ \E u \in Users : EventEnqueue(u, FactorOne, TRUE)
    \/ FetcherCheck
    \/ FetcherDequeue(TRUE)
    \/ FetcherTimer
    \/ FetcherSend
    \/ \E w \in DOMAIN worker : WorkerTake(w, FALSE)
    \/ \E w \in DOMAIN worker, ok \in BOOLEAN : HandleGet(w, ok)
    \/ \E w \in DOMAIN worker, ok \in BOOLEAN, empty \in BOOLEAN : HandleSync(w, ok, empty)
    \/ \E w \in DOMAIN worker, ok \in BOOLEAN : HandleSetState(w, ok)
    \/ \E w \in DOMAIN worker, ok \in BOOLEAN : HandleSetTime(w, ok)
    \/ \E w \in DOMAIN worker : WorkerRequeue(w, TRUE)

SpecHandle == InitOne /\ [][HandleNext]_vars

\* no job is in the queue, in the jobs channel or with a worker
AtRest ==
    /\ \A w \in DOMAIN worker : worker[w] = Idle
    /\ pending = {}
    /\ jobsCh.buf = <<>>

\* ten days pass between two jobs
RestTenDays == AtRest /\ TenDaysPass

\* the steps of the fetcher, of the worker up to the sync, and of the
\* reconciler that feeds the queue
FeedNext ==
    \/ FetcherCheck
    \/ FetcherDequeue(TRUE)
    \/ FetcherTimer
    \/ FetcherSend
    \/ \E w \in DOMAIN worker : WorkerTake(w, FALSE)
    \/ \E w \in DOMAIN worker : HandleGet(w, TRUE)
    \/ ReconBegin(TRUE, FALSE)
    \/ ReconVisit(TRUE, TRUE, FALSE)

\* the pool of one worker with Handle taken step by step, fed by the
\* reconciler and by events of "a", over a span of time in which keys expire;
\* the sync may fail and the job is then requeued
KeysNext ==
    \/ FeedNext
    \/ EventEnqueue("a", FactorOne, TRUE)
    \/ \E w \in DOMAIN worker, ok \in BOOLEAN, empty \in BOOLEAN : HandleSync(w, ok, empty)
    \/ \E w \in DOMAIN worker : HandleSetState(w, TRUE)
    \/ \E w \in DOMAIN worker : HandleSetTime(w, TRUE)
    \/ \E w \in DOMAIN worker : WorkerRequeue(w, TRUE)
    \/ RestTenDays

SpecKeys == InitOne /\ [][KeysNext]_vars

\* the same pool fed by the reconciler alone over the same span of time; the
\* sync succeeds and the write of the last-sync time may fail
TtlNext ==
    \/ FeedNext
    \/ \E w \in DOMAIN worker, empty \in BOOLEAN : HandleSync(w, TRUE, empty)
    \/ \E w \in DOMAIN worker : HandleSetState(w, TRUE)
    \/ \E w \in DOMAIN worker, ok \in BOOLEAN : HandleSetTime(w, ok)
    \/ RestTenDays

SpecTtl == InitOne /\ [][TtlNext]_vars

\* the pool of NumWorkers workers with the steps of Handle interleaved, every
\* store call succeeding and every sync response carrying a cursor; only the
\* sync request may fail
ChainNext ==
    \/ \E u \in Users : EventEnqueue(u, FactorOne, TRUE)
    \/ FetcherCheck
    \/ FetcherDequeue(TRUE)
    \/ FetcherTimer
    \/ FetcherSend
    \/ \E w \in DOMAIN worker : WorkerTake(w, FALSE)
    \/ \E w \in DOMAIN worker : HandleGet(w, TRUE)
    \/ \E w \in DOMAIN worker, ok \in BOOLEAN : HandleSync(w, ok, FALSE)
    \/ \E w \in DOMAIN worker : HandleSetState(w, TRUE)
    \/ \E w \in DOMAIN worker : HandleSetTime(w, TRUE)
    \/ \E w \in DOMAIN worker : WorkerRequeue(w, TRUE)

SpecChain == Init /\ [][ChainNext]_vars

\* the reconciler with a running pool of one worker, every iteration
\* recorded; listing, last-sync reads and Enqueue may fail
PassNext ==
    \/ ClockAdvance
    \/ \E ok \in BOOLEAN : ReconBegin(ok, FALSE)
    \/ \E rd \in BOOLEAN, ok \in BOOLEAN : ReconVisit(rd, ok, TRUE)
    \/ FetcherCheck
    \/ FetcherDequeue(TRUE)
    \/ FetcherTimer
    \/ FetcherSend
    \/ \E w \in DOMAIN worker : WorkerTake(w, FALSE)
    \/ \E w \in DOMAIN worker : HandleOk(w, TRUE)

SpecPass == InitOne /\ [][PassNext]_vars

\* the same with every call succeeding and every pass recorded
TwiceNext ==
    \/ ClockAdvance
    \/ ReconBegin(TRUE, TRUE)
    \/ ReconVisit(TRUE, TRUE, TRUE)
    \/ FetcherCheck
    \/ FetcherDequeue(TRUE)
    \/ FetcherTimer
    \/ FetcherSend
    \/ \E w \in DOMAIN worker : WorkerTake(w, FALSE)
    \/ \E w \in DOMAIN worker : HandleOk(w, TRUE)

SpecTwice == InitOne /\ [][TwiceNext]_vars

\* the reconciler service with the callers of Start and Stop and its ticker;
\* listing, last-sync reads and Enqueue may fail
SvcNext ==
    \/ SvcStart
    \/ SvcStartReturn
    \/ \E ok \in BOOLEAN : SvcInitial(ok)
    \/ \E ok \in BOOLEAN : SvcPeriodic(ok)
    \/ \E rd \in BOOLEAN, ok \in BOOLEAN : SvcUser(rd, ok)
    \/ SvcTick
    \/ SvcReturn
    \/ \E s \in Stoppers : SvcStop(s)
    \/ \E s \in Stoppers : SvcStopDone(s)
    \/ \E s \in Stoppers : SvcStopExpire(s)

SpecSvc == InitOne /\ [][SvcNext]_vars

\* the reconciler service feeding a running pool of one worker, as time
\* passes; listing, last-sync reads and Enqueue may fail
CountsNext ==
    \/ ClockAdvance
    \/ SvcStart
    \/ \E ok \in BOOLEAN : SvcInitial(ok)
    \/ \E ok \in BOOLEAN : SvcPeriodic(ok)
    \/ \E rd \in BOOLEAN, ok \in BOOLEAN : SvcUser(rd, ok)
    \/ SvcTick
    \/ FetcherCheck
    \/ FetcherDequeue(TRUE)
    \/ FetcherTimer
    \/ FetcherSend
    \/ \E w \in DOMAIN worker : WorkerTake(w, FALSE)
    \/ \E w \in DOMAIN worker : HandleOk(w, TRUE)

SpecCounts == InitOne /\ [][CountsNext]_vars

\* the running pool and the reconciler, no change events
ReconNext ==
    \/ ClockAdvance
    \/ \E ok \in BOOLEAN : ReconList(ok)
    \/ \E rd \in BOOLEAN, ok \in BOOLEAN : ReconUser(rd, ok)
    \/ FetcherCheck
    \/ \E ok \in BOOLEAN : FetcherDequeue(ok)
    \/ FetcherTimer
    \/ FetcherSend
    \/ \E w \in DOMAIN worker : WorkerTake(w, FALSE)
    \/ \E w \in DOMAIN worker, wr \in BOOLEAN : HandleOk(w, wr)
    \/ \E w \in DOMAIN worker : HandleFail(w)
    \/ \E w \in DOMAIN worker, ok \in BOOLEAN : WorkerRequeue(w, ok)

SpecRecon ==
    /\ InitOne /\ [][ReconNext]_vars
    /\ WF_vars(ReconStep)
    /\ WF_vars(FetcherStep)
    /\ \A w \in Workers :
        WF_vars(/\ w \in DOMAIN worker
                /\ (WorkerTake(w, FALSE) \/ HandleOk(w, TRUE) \/ WorkerRequeue(w, TRUE)))


\* ======================================================================
\* Properties of the queue (checked under SpecQueue)
\* ======================================================================
Resident(u) == IF u \in Members(pending) THEN 1 ELSE 0
SumOver(f) == f["a"] + f["b"]

\* C1 (coalescing): the score stored for a pending user is the least t / f'
\* over the successful Enqueue calls for it since it was last dequeued, and an
\* Enqueue that computes a higher score than the stored one leaves it as it was.
C1_Coalescing ==
    /\ \A u \in Members(pending) : ScoreOf(pending, u) = minSince[u]
    /\ (/\ last.op = "enq" /\ last.ok
        /\ last.user \in Members(last.before)
        /\ last.score > ScoreOf(last.before, last.user))
       => ScoreOf(pending, last.user) = ScoreOf(last.before, last.user)

\* C1 witness: the third successful Enqueue of a user, which was pending,
\* computed a higher score than the stored one.
C1_Witness ==
    /\ last.op = "enq" /\ last.ok
    /\ last.user \in Members(last.before)
    /\ last.score > ScoreOf(last.before, last.user)
    /\ enqOk[last.user] >= 3

\* C2 (at-most-one membership): the pending set holds at most one entry per user.
C2_AtMostOneEntry ==
    \A u \in Users : Cardinality({e \in pending : e[1] = u}) <= 1

\* C2 witness: a user was enqueued successfully while already pending, with a
\* score different from the one first stored.
C2_Witness ==
    \E u \in Users :
        /\ enqOk[u] >= 2 /\ created[u] = 1 /\ returned[u] = 0
        /\ last.op = "enq" /\ last.ok /\ last.user = u
        /\ last.score # ScoreOf(last.before, u)

\* C3 (priority ordering): a Dequeue on a non-empty set removes and returns a
\* member of least score, so a user is never returned while another user of
\* strictly lower score is present.
C3_PriorityOrder ==
    (last.op = "deq" /\ last.ok /\ last.before # {}) =>
        /\ last.user \in Members(last.before)
        /\ \A x \in last.before : ScoreOf(last.before, last.user) <= x[2]
        /\ pending = {e \in last.before : e[1] # last.user}

\* C3 witness: with both users pending, "b" of strictly lower score was
\* returned ahead of "a".
C3_Witness ==
    /\ last.op = "deq" /\ last.user = "b"
    /\ "a" \in Members(last.before)
    /\ ScoreOf(last.before, "b") < ScoreOf(last.before, "a")

\* C4 (atomic Dequeue): no entry is returned to two callers: a user is returned
\* at most once per entry created, two callers hold the same user only when it
\* was entered twice, and the returned member has left the set, so that a
\* second call on a single entry finds the set empty and returns "".
C4_DequeueAtomic ==
    /\ \A u \in Users : returned[u] <= created[u]
    /\ \A c1, c2 \in Consumers :
        (c1 # c2 /\ got[c1] = got[c2] /\ got[c1] \in Users) => created[got[c1]] >= 2
    /\ (last.op = "deq" /\ last.user # NoUser) =>
        /\ last.user \notin Members(pending)
        /\ Cardinality(pending) = Cardinality(last.before) - 1
    /\ (last.op = "deq" /\ last.before = {}) => last.user = NoUser /\ pending = {}

\* C4 witness: one entry was ever created; consumer c1 was returned its user
\* and the following call, by c2, was returned "".
C4_Witness ==
    /\ SumOver(created) = 1 /\ created["a"] = 1
    /\ got["c1"] = "a" /\ got["c2"] = NoUser
    /\ last.op = "deq" /\ last.ok /\ last.before = {}

\* C9 as stated (accounting by successful Enqueue calls): the users returned
\* by Dequeue are the users of the successful Enqueue calls minus the
\* resident ones, as multisets.
C9_Original ==
    \A u \in Users : returned[u] = enqOk[u] - Resident(u)

\* C9 amended (accounting by entries): the users returned by Dequeue are the
\* users of the successful Enqueue calls that found the user absent, minus the
\* resident ones, as multisets; a successful Enqueue of a user already pending
\* adds nothing to be returned.
C9_EntryAccounting ==
    \A u \in Users :
        /\ returned[u] + Resident(u) = created[u]
        /\ created[u] <= enqOk[u]

\* C9 witness: a user was entered, coalesced, returned and entered again.
C9_Witness ==
    \E u \in Users :
        /\ enqOk[u] = 3 /\ created[u] = 2 /\ returned[u] = 1 /\ Resident(u) = 1

\* C10 (stats): enqueueCount is the number of Enqueue calls that returned nil,
\* dequeueCount the number of Dequeue calls that returned a user; a failed
\* Enqueue, a failed Dequeue and a Dequeue on the empty set change neither.
C10_StatsCountSuccesses ==
    /\ enqueueCount = SumOver(enqOk) % CounterMod
    /\ dequeueCount = SumOver(returned) % CounterMod
    /\ (\/ last.op = "enq" /\ ~last.ok
        \/ last.op = "deq" /\ last.user = NoUser)
       => enqueueCount = last.enq /\ dequeueCount = last.deq

\* C10 witness: after successful calls of both kinds, a Dequeue that the
\* backend answered found the set empty.
C10_Witness ==
    /\ last.op = "deq" /\ last.ok /\ last.before = {}
    /\ SumOver(enqOk) >= 2 /\ SumOver(returned) >= 2
    /\ enqueueCount = last.enq /\ dequeueCount = last.deq

\* C11 (Dequeue on the empty set): a Dequeue call that the backend answers
\* on an empty pending set returns "" and leaves the pending set, both
\* counters, every cursor and every last-sync time as they were, however many
\* such calls follow one another.
C11_EmptyDequeueFrame ==
    [][((last' # last \/ got' # got) /\ last'.op = "deq" /\ last'.ok /\ pending = {})
        => /\ last'.user = NoUser
           /\ \E c \in Consumers : got'[c] = NoUser
           /\ UNCHANGED <<pending, enqueueCount, dequeueCount, cursor, lastSync>>]_vars

\* C11 witness: nothing was ever enqueued and both consumers, one after the
\* other, were returned "".
C11_Witness ==
    /\ SumOver(enqOk) = 0
    /\ got = [c \in Consumers |-> NoUser]
    /\ last.op = "deq" /\ last.ok /\ last.before = {}
    /\ pending = {} /\ enqueueCount = 0 /\ dequeueCount = 0

\* the users of a Dequeue call on a set holding a and b, each entry made by
\* one Enqueue call, at different clock values
Single(u) == u \in Members(last.before) /\ born[u].t # 0
BornScore(u) == Quotient(born[u].t, born[u].f)
Raced(x, y) ==
    /\ last.op = "deq" /\ last.ok
    /\ x # y /\ Single(x) /\ Single(y)
    /\ born[x].t < born[y].t

\* C12 as stated (score function): of two users enqueued at t1 < t2 the later
\* one is returned first if and only if t2 / f2 < t1 / f1.
C12_Original ==
    \A x, y \in Users :
        Raced(x, y) => (last.user = y <=> BornScore(y) < BornScore(x))

\* C12 amended (score function): an Enqueue of an absent user at clock value t
\* with factor f stores t / f when f > 0 and t / 1.0 when f <= 0; of two users
\* enqueued at t1 < t2 the one of lower quotient is returned first, and when
\* the quotients are equal the one whose name sorts first.
C12_ScoreFunction ==
    /\ \A u \in Members(pending) :
        born[u].t # 0 =>
            ScoreOf(pending, u) = IF born[u].f > 0
                                  THEN (4 * born[u].t) \div born[u].f
                                  ELSE (4 * born[u].t) \div FactorOne
    /\ \A x, y \in Users :
        Raced(x, y) =>
            /\ BornScore(y) < BornScore(x) => last.user = y
            /\ BornScore(x) < BornScore(y) => last.user = x
            /\ BornScore(x) = BornScore(y) =>
                  last.user = IF Rank(x) < Rank(y) THEN x ELSE y

\* C12 witness: "b" was enqueued with a non-positive factor, "a" at a later
\* clock value with factor 2.0; the quotients are equal and "a" was returned.
C12_Witness ==
    /\ Raced("b", "a")
    /\ born["b"].f <= 0 /\ born["a"].f = 4
    /\ BornScore("a") = BornScore("b")
    /\ last.user = "a"

\* ======================================================================
\* Properties of the worker pool
\* ======================================================================
Handling(w, u) == worker[w] = [pc |-> "handle", user |-> u]

\* C5 as stated (at most one in flight per user): no two workers are inside
\* Handle for the same user at once.
C5_Original ==
    \A w1, w2 \in DOMAIN worker, u \in Users :
        (Handling(w1, u) /\ Handling(w2, u)) => w1 = w2

\* u waits for a handler: it is pending, or it was dequeued and its Handle
\* call has not started (held by the fetcher or buffered in jobsCh)
Waiting(u) ==
    \/ u \in Members(pending)
    \/ fetcher.user = u
    \/ \E i \in 1..Len(jobsCh.buf) : jobsCh.buf[i] = u

InFlight(u) ==
    \/ fetcher.user = u
    \/ \E i \in 1..Len(jobsCh.buf) : jobsCh.buf[i] = u
    \/ \E w \in DOMAIN worker : worker[w].user = u

Requeuing(u) == \E w \in DOMAIN worker : worker[w] = [pc |-> "requeue", user |-> u]

\* C7 (retry on failure): after Handle returned an error the worker enqueues
\* the user with factor 1.0 (the entry takes score now / 1.0 unless a lower one
\* is stored) and goes on to its next job; with the producers stopped, Handle
\* is then called again for the user, and the user ends outside the pending
\* set with no call left in flight.
C7_RetryOnFailure ==
    /\ [][\A w \in DOMAIN worker :
            (worker[w].pc = "requeue" /\ worker'[w] # worker[w]) =>
                LET u == worker[w].user IN
                /\ worker'[w] = Idle
                /\ u \in Members(pending')
                /\ ScoreOf(pending', u) =
                      IF u \in Members(pending)
                      THEN Min2(ScoreOf(pending, u), Quotient(now, FactorOne))
                      ELSE Quotient(now, FactorOne)]_vars
    /\ \A u \in Users, k \in {0, 1} :
        (envQuiet /\ Requeuing(u) /\ started[u] = k) ~> (started[u] # k)
    /\ \A u \in Users :
        (envQuiet /\ Requeuing(u)) ~> (u \notin Members(pending) /\ ~InFlight(u))

\* C7 witness: "a" alone was enqueued, its first Handle call failed, the
\* second succeeded, and it is neither pending nor in flight.
C7_Witness ==
    /\ envQuiet
    /\ failsLeft = MaxFails - 1
    /\ started = [u \in Users |-> 0]
    /\ lastSync["a"] # 0 /\ lastSync["b"] = 0
    /\ pending = {}
    /\ ~InFlight("a") /\ ~InFlight("b")

\* a worker's requeue step that finds its user absent from the pending set
Recreates(w) ==
    /\ worker[w].pc = "requeue" /\ worker'[w] # worker[w]
    /\ worker[w].user \notin Members(pending)

\* C16 as stated (requeue preserves priority): the entry a worker re-creates
\* after a failed Handle call has the score the user had when it was dequeued.
C16_Original ==
    [][\A w \in DOMAIN worker :
        Recreates(w) =>
            /\ worker[w].user \in Members(pending')
            /\ ScoreOf(pending', worker[w].user) = taken[worker[w].user]]_vars

\* C16 amended (requeue at normal priority): the entry a worker re-creates
\* after a failed Handle call has the score now / 1.0, the clock being read at
\* the requeue, whatever score the user had when it was dequeued.
C16_RequeueAtFactorOne ==
    [][\A w \in DOMAIN worker :
        Recreates(w) =>
            /\ worker[w].user \in Members(pending')
            /\ ScoreOf(pending', worker[w].user) = (4 * now) \div FactorOne]_vars

\* C16 witness: "a" was dequeued with the score 1 of factor 2.0 and, after
\* its Handle call failed, is pending again with the score 2 of factor 1.0.
C16_Witness ==
    /\ now = 1
    /\ taken["a"] = 1
    /\ <<"a", 2>> \in pending
    /\ failsLeft = MaxFails - 1
    /\ \A w \in DOMAIN worker : worker[w] = Idle

\* ======================================================================
\* Properties of the sync handler
\* ======================================================================
\* the Handle calls in progress that have issued their cursor write
CursorWritten == {w \in DOMAIN worker : worker[w].pc = "settime" /\ hnd[w].cw}

\* C17 (handler write counts): as many last-sync writes have been issued as
\* Handle calls have returned nil; the cursor writes issued are at most those
\* calls plus the calls in progress that have issued theirs, so at most N once
\* N calls have returned nil and none is in progress; a call that returned an
\* error issued no write.
C17_HandlerWriteCounts ==
    /\ timeWrites = okCalls
    /\ cursorWrites <= okCalls + Cardinality(CursorWritten)
    /\ \A w \in DOMAIN worker : worker[w].pc = "requeue" => ~hnd[w].cw

\* C17 witness: three syncs were made: one failed, one returned no cursor
\* and one returned a cursor; two last-sync writes and one cursor write.
C17_Witness ==
    /\ syncs = 3 /\ okCalls = 2
    /\ timeWrites = 2 /\ cursorWrites = 1
    /\ failsLeft = MaxFails - 1
    /\ \A w \in DOMAIN worker : worker[w].pc = "take"

\* a step of worker w from position p of its Handle call
Leaves(w, p) == worker[w].pc = p /\ worker'[w] # worker[w]
\* the call made in the step failed
CallFailed == failsLeft' < failsLeft

\* C27 (best-effort persistence on success): after a successful sync the
\* handler writes the cursor exactly when the response carries one, then
\* always writes the last-sync time with the clock value of that moment, and
\* returns nil whether or not either write failed; a failed write changes
\* nothing.
C27_BestEffortPersistence ==
    [][\A w \in DOMAIN worker :
        LET u == worker[w].user IN
        /\ (Leaves(w, "sync") /\ ~CallFailed) =>
              /\ worker'[w].pc = IF hnd'[w].resp # 0 THEN "setstate" ELSE "settime"
              /\ cursorWrites' = cursorWrites /\ timeWrites' = timeWrites
        /\ Leaves(w, "setstate") =>
              /\ worker'[w].pc = "settime"
              /\ cursorWrites' = cursorWrites + 1
              /\ cursor' = IF CallFailed THEN cursor
                            ELSE [cursor EXCEPT ![u] = hnd[w].resp]
        /\ Leaves(w, "settime") =>
              /\ worker'[w] = Idle
              /\ okCalls' = okCalls + 1
              /\ timeWrites' = timeWrites + 1
              /\ lastSync' = IF CallFailed THEN lastSync
                              ELSE [lastSync EXCEPT ![u] = now]]_vars

\* C27 witness: the sync of "a" returned a cursor, the cursor was written,
\* the last-sync write failed and Handle has returned nil.
C27_Witness ==
    /\ okCalls = 1 /\ syncs = 1
    /\ cursorWrites = 1 /\ timeWrites = 1
    /\ cursor["a"] = 1
    /\ lastSync["a"] = 0
    /\ failsLeft = MaxFails - 1
    /\ worker[1] = Idle

\* C28 (cursor read failure is tolerated): a failed cursor read makes the
\* handler go on to the sync with the empty cursor, a successful one with the
\* cursor stored; the handler returns an error exactly when the sync call
\* fails, whatever the read did.
C28_CursorReadTolerated ==
    [][\A w \in DOMAIN worker :
        /\ Leaves(w, "handle") =>
              /\ worker'[w].pc = "sync"
              /\ hnd'[w].state = IF CallFailed THEN 0 ELSE cursor[worker[w].user]
        /\ Leaves(w, "sync") => (worker'[w].pc = "requeue" <=> CallFailed)
        /\ worker'[w].pc = "requeue" => worker[w].pc \in {"sync", "requeue"}]_vars

\* C28 witness: the cursor of "a" is stored, the read of it failed, and the
\* sync made with the empty cursor has succeeded.
C28_Witness ==
    /\ worker[1] = [pc |-> "setstate", user |-> "a"]
    /\ cursor["a"] # 0
    /\ hnd[1].state = 0
    /\ failsLeft = MaxFails - 1

\* C18 as stated (cursor threading): under every interleaving of the
\* workers, the cursor passed to a sync of a user that succeeds is the cursor
\* returned by the latest successful sync of that user before it (none for
\* the first).
C18_Original ==
    [][\A w \in DOMAIN worker :
        (worker[w].pc = "sync" /\ worker'[w].pc = "setstate")
            => hnd[w].state = prevNew[worker[w].user]]_vars

\* ======================================================================
\* Properties of the cursor and last-sync keys (checked under SpecKeys and
\* SpecTtl)
\* ======================================================================
\* the step is the cursor write, or the last-sync write, of a Handle call for u
WritesState(u) == \E w \in DOMAIN worker : worker[w].user = u /\ Leaves(w, "setstate")
WritesTime(u) == \E w \in DOMAIN worker : worker[w].user = u /\ Leaves(w, "settime")
\* the step is the expiry of u's cursor key, or of u's last-sync key
ExpiresState(u) == stateTtl[u] = 1 /\ stateTtl'[u] = 0 /\ cursor'[u] = 0
ExpiresTime(u) == timeTtl[u] = 1 /\ timeTtl'[u] = 0 /\ lastSync'[u] = 0

\* C29 as stated (cursor and last-sync frame): a user's cursor and last-sync
\* time change only in a write of a handler call for that user whose sync
\* succeeded.
C29_Original ==
    [][\A u \in Users :
        /\ cursor'[u] # cursor[u] => WritesState(u)
        /\ lastSync'[u] # lastSync[u] => WritesTime(u)]_vars

\* C29 amended (cursor and last-sync frame): a user's cursor and last-sync
\* time are created or overwritten only by the writes of a handler call for
\* that user whose sync succeeded, and removed only by the expiry of the key;
\* every other step (Enqueue, Dequeue, a worker's requeue, a reconciler
\* iteration, a failed sync) leaves both as they are.
C29_KeysFrame ==
    [][\A u \in Users :
        /\ cursor'[u] # cursor[u] => (WritesState(u) \/ ExpiresState(u))
        /\ lastSync'[u] # lastSync[u] => (WritesTime(u) \/ ExpiresTime(u))
        /\ (pending' # pending \/ recon' # recon) =>
              (cursor' = cursor /\ lastSync' = lastSync)
        /\ (\E w \in DOMAIN worker : worker'[w].pc = "requeue" \/ Leaves(w, "requeue")) =>
              (cursor' = cursor /\ lastSync' = lastSync)]_vars

\* C29 witness: "a" and "b" were synced, "a" again ten days later, and
\* twenty more days have passed: the keys of "b" have expired, and "a", enqueued
\* by an event, has been dequeued and handed to the worker with its cursor and
\* its last-sync time kept.
C29_Witness ==
    /\ Handling(1, "a")
    /\ cursor["a"] # 0 /\ lastSync["a"] # 0
    /\ stateTtl["a"] = 1 /\ timeTtl["a"] = 1
    /\ lastSync["b"] = 0 /\ timeTtl["b"] = 0
    /\ okCalls = 3
    /\ pending = {}

\* C30 as stated (TTL refresh): a Handle call that returns nil leaves the
\* time-to-live of the user's cursor key and of its last-sync key at 30
\* days; the reads of the handler and of the reconciler change no
\* time-to-live.
C30_Original ==
    [][\A u \in Users :
        /\ WritesTime(u) => (stateTtl'[u] = Ttl /\ timeTtl'[u] = Ttl)
        /\ (\E w \in DOMAIN worker : Leaves(w, "handle")) =>
              (stateTtl' = stateTtl /\ timeTtl' = timeTtl)
        /\ recon' # recon => (stateTtl' = stateTtl /\ timeTtl' = timeTtl)]_vars

\* C30 amended (TTL on write): the time-to-live of a key is set to 30 days
\* by every successful write of that key and by nothing else: the cursor
\* write of a Handle call, made only when the sync returned a cursor, and its
\* last-sync write; a failed write, the reads of the handler and of the
\* reconciler, and every other step leave it as it is, and it only shrinks
\* as time passes.
C30_TtlOnWrite ==
    [][\A u \in Users :
        /\ WritesState(u) => stateTtl'[u] = IF CallFailed THEN stateTtl[u] ELSE Ttl
        /\ WritesTime(u) => timeTtl'[u] = IF CallFailed THEN timeTtl[u] ELSE Ttl
        /\ stateTtl'[u] # stateTtl[u] =>
              (WritesState(u) \/ stateTtl' = Elapse(stateTtl))
        /\ timeTtl'[u] # timeTtl[u] =>
              (WritesTime(u) \/ timeTtl' = Elapse(timeTtl))
        /\ (\E w \in DOMAIN worker : Leaves(w, "handle")) =>
              (stateTtl' = stateTtl /\ timeTtl' = timeTtl)
        /\ recon' # recon => (stateTtl' = stateTtl /\ timeTtl' = timeTtl)]_vars

\* C30 witness: a sync of "a" wrote its cursor and failed to write its
\* last-sync time, ten days passed, and a second sync of "a" that returned no
\* cursor has completed: the last-sync key has its full time-to-live, the
\* cursor key has not.
C30_Witness ==
    /\ worker[1] = Idle
    /\ failsLeft = MaxFails - 1
    /\ cursorWrites = 1 /\ timeWrites = 3
    /\ cursor["a"] # 0
    /\ stateTtl["a"] = Ttl - 1
    /\ timeTtl["a"] = Ttl
    /\ cursor["b"] = 0 /\ timeTtl["b"] = Ttl - 1

\* the step is a Dequeue call of the fetcher that returns a backend error
DequeueFails == fetcher.pc = "dequeue" /\ failsLeft' < failsLeft

\* C35 (fetcher survives backend errors): a Dequeue call that fails removes
\* no pending entry and leaves the fetcher in its 100 ms backoff with jobsCh
\* as it was; while stopCh is open neither the fetcher nor a worker returns;
\* and, the producers being quiet, every pending user is dequeued and handed
\* to a worker's Handle call once the failures have ceased.
C35_FetcherSurvives ==
    /\ [][DequeueFails =>
            /\ pending' = pending
            /\ jobsCh' = jobsCh
            /\ fetcher' = [pc |-> "errwait", user |-> NoUser]]_vars
    /\ [](~stopCh =>
            /\ fetcher # Exited /\ ~jobsCh.closed
            /\ \A w \in DOMAIN worker : worker[w] # Exited)
    /\ \A u \in Users :
        (envQuiet /\ u \in Members(pending)) ~> (\E w \in DOMAIN worker : Handling(w, u))

\* C35 witness: "a" has been handled, the producers are quiet, and a Dequeue
\* call has just failed with "b" pending: the fetcher is in its backoff.
C35_Witness ==
    /\ failsLeft < MaxFails
    /\ envQuiet
    /\ lastSync["a"] # 0
    /\ fetcher.pc = "errwait"
    /\ Members(pending) = {"b"}

\* the workers inside handler.Handle or the requeue that follows its failure
ActiveWorkers == {w \in DOMAIN worker : worker[w].pc \in {"handle", "requeue"}}

\* C37 (ActiveCount accuracy): ActiveCount is the number of workers now
\* executing handler.Handle or the requeue that follows a failure, hence
\* between 0 and numWorkers, and it is 0 once Stop has returned nil.
C37_ActiveCount ==
    /\ activeCount = Cardinality(ActiveWorkers)
    /\ activeCount \in 0..NumWorkers
    /\ \A s \in Stoppers : stopper[s] = "nil" => activeCount = 0

\* Stop waits while both workers are counted, one of them requeuing the user
\* whose Handle failed
C37_Witness ==
    /\ stopper["s1"] = "wait"
    /\ activeCount = NumWorkers
    /\ \E w \in DOMAIN worker : worker[w].pc = "requeue"

\* ======================================================================
\* Properties of WorkerPool.Stop
\* ======================================================================
\* C13 (graceful stop): a Stop call has returned nil only when the fetcher and
\* every worker have exited, so that no Handle call is in progress, and once
\* they have exited none starts again; a Stop call that waits eventually
\* returns (nil, unless its context expired).
C13_GracefulStop ==
    /\ [](\A s \in Stoppers : stopper[s] = "nil" =>
            /\ AllExited
            /\ activeCount = 0
            /\ \A w \in DOMAIN worker, u \in Users : ~Handling(w, u))
    /\ [][AllExited => AllExited']_vars
    /\ (stopper["s1"] = "wait") ~> (stopper["s1"] \in {"nil", "err"})

\* C13 witness: Stop was called while both workers were inside Handle and has
\* returned nil.
C13_Witness ==
    /\ stopper["s1"] = "nil"
    /\ AllExited
    /\ lastSync["a"] # 0 /\ lastSync["b"] # 0
    /\ pending # {}

\* worker w of the pool is inside Handle
Busy(w) == w \in DOMAIN worker /\ worker[w].pc = "handle"

\* C24 (Stop timeout does not kill workers): the return of Stop with the
\* context's error leaves the fetcher, the workers and the hand-off channel as
\* they are; a worker leaves a Handle call only by its return; a Handle call
\* in progress when Stop has returned the error still returns, and a user
\* waiting in the hand-off channel is still handed to a worker.
C24_StopTimeout ==
    /\ [][(stopper["s1"] = "wait" /\ stopper'["s1"] = "err") =>
            UNCHANGED <<stopCh, jobsCh, fetcher, worker, activeCount>>]_vars
    /\ [][\A w \in DOMAIN worker :
            worker[w].pc = "handle" => worker'[w].pc \in {"handle", "take", "requeue"}]_vars
    /\ \A w \in Workers :
          (stopper["s1"] = "err" /\ Busy(w)) ~> ~Busy(w)
    /\ \A u \in Users :
          (stopper["s1"] = "err" /\ jobsCh.buf = <<u>>) ~>
              (\E w \in DOMAIN worker : Handling(w, u))

\* C24 witness: Stop has returned the context's error while the worker is
\* inside Handle for "a" and "b" waits in the hand-off channel.
C24_Witness ==
    /\ stopper["s1"] = "err"
    /\ stopCh
    /\ Handling(1, "a")
    /\ jobsCh.buf = <<"b">>

\* C25 (drain on stop): once stopCh is closed the fetcher closes jobsCh in
\* the step in which it returns, dequeuing nothing in that step nor after
\* it, and it does return; a user leaves the hand-off channel only into a
\* worker's Handle call, and a worker returns only when the channel is
\* closed and empty.
C25_DrainOnStop ==
    /\ [][(fetcher # Exited /\ fetcher' = Exited) =>
            (stopCh /\ jobsCh'.closed /\ pending' = pending)]_vars
    /\ [][fetcher = Exited => (fetcher' = Exited /\ dequeueCount' = dequeueCount)]_vars
    /\ [][(jobsCh.buf # <<>> /\ jobsCh'.buf # jobsCh.buf) =>
            \E w \in DOMAIN worker :
                /\ worker[w].pc = "take"
                /\ worker'[w] = [pc |-> "handle", user |-> Head(jobsCh.buf)]]_vars
    /\ [](\A w \in DOMAIN worker :
            worker[w] = Exited => (jobsCh.closed /\ jobsCh.buf = <<>>))
    /\ stopCh ~> (fetcher = Exited)

\* C25 witness: the fetcher has closed the hand-off channel and returned
\* while "b" was still in it; both workers are inside Handle.
C25_Witness ==
    /\ stopCh /\ fetcher = Exited
    /\ jobsCh = [buf |-> <<"b">>, closed |-> TRUE]
    /\ Handling(1, "a") /\ Handling(2, "a")

\* C26 (no dequeued user is lost): when the fetcher lets go of the user it
\* dequeued, the user is in the hand-off channel or back in the pending set.
C26_Original ==
    [][(fetcher.pc = "send" /\ fetcher'.pc # "send") =>
        \/ jobsCh'.buf = Append(jobsCh.buf, fetcher.user)
        \/ fetcher.user \in Members(pending')]_vars

\* the users dequeued whose Handle call has not returned: the one the fetcher
\* holds, those in jobsCh and those inside Handle
Outstanding ==
    (IF fetcher.user # NoUser THEN 1 ELSE 0)
    + Len(jobsCh.buf)
    + Cardinality({w \in DOMAIN worker : worker[w].pc = "handle"})

\* a step that takes a user out of the pending set
Removes == \E u \in Members(pending) : u \notin Members(pending')

\* C38 (backpressure bound): at most numWorkers + 2 users have left the
\* pending set without their Handle call having returned: numWorkers in
\* Handle, one in jobsCh and one held by the fetcher, which dequeues only
\* when it holds none; the user a returning fetcher lets go of takes the
\* place of the one it held.
C38_Backpressure ==
    /\ [](Outstanding <= NumWorkers + 2)
    /\ [](fetcher = Exited => Outstanding <= NumWorkers + 1)
    /\ [](Len(jobsCh.buf) <= JobsCap)
    /\ [][Removes =>
            /\ fetcher = [pc |-> "dequeue", user |-> NoUser]
            /\ fetcher'.pc = "send"
            /\ Members(pending) = Members(pending') \cup {fetcher'.user}
            /\ jobsCh' = jobsCh /\ worker' = worker]_vars
    /\ [][fetcher.pc = "send" =>
            /\ pending' = pending \/ fetcher' = fetcher
            /\ dequeueCount' = dequeueCount]_vars

\* both workers are inside Handle, "b" is in jobsCh and the fetcher is
\* blocked on the send of "a" with "b" pending
C38_Witness ==
    /\ Outstanding = NumWorkers + 2
    /\ fetcher = [pc |-> "send", user |-> "a"]
    /\ jobsCh.buf = <<"b">>
    /\ "b" \in Members(pending)
    /\ ~stopCh

\* a step in which the fetcher returns
FetcherReturns == fetcher # Exited /\ fetcher' = Exited

\* C39 (hand-off channel discipline): jobsCh is closed in the step in which
\* the fetcher returns, whichever select it returns from, and in no other
\* step, hence once and by the fetcher alone; it stays closed, nothing is
\* sent on it once it is closed, and the workers' steps neither close nor
\* reopen it.
C39_ChannelDiscipline ==
    /\ [][FetcherReturns <=> (~jobsCh.closed /\ jobsCh'.closed)]_vars
    /\ [][FetcherReturns => (worker' = worker /\ jobsCh'.buf = jobsCh.buf)]_vars
    /\ [](jobsCh.closed <=> fetcher = Exited)
    /\ [][jobsCh.closed =>
            /\ jobsCh'.closed
            /\ fetcher' = Exited
            /\ Len(jobsCh'.buf) <= Len(jobsCh.buf)]_vars
    /\ [][worker' # worker => jobsCh'.closed = jobsCh.closed]_vars

\* the fetcher has closed jobsCh and returned; worker 1 found the channel
\* closed and empty and returned, worker 2 is still inside Handle
C39_Witness ==
    /\ fetcher = Exited
    /\ jobsCh = [buf |-> <<>>, closed |-> TRUE]
    /\ worker[1] = Exited
    /\ Handling(2, "a")

\* C14 as stated (double Stop): whatever the interleaving of the Stop calls,
\* none of them panics.
C14_Original == ~Panicked

\* ======================================================================
\* Properties of the lifetime context
\* ======================================================================
\* C15 as stated (cancellation): once the context passed to Start is
\* cancelled, the fetcher and all workers eventually exit.
C15_Original == ctxDone ~> AllExited

\* ======================================================================
\* Properties of the reconciler
\* ======================================================================
Stale(u) == lastSync[u] = 0 \/ now - lastSync[u] >= Threshold

\* a step of the reconciler's loop over the listed users
Visits == recon.pc = "pass" /\ recon' # recon
Visited == Head(recon.todo)
Enqueues == enqueueCount' # enqueueCount

\* C19 as stated (threshold rule): an iteration enqueues the listed user if
\* and only if its last-sync time is absent or at least the threshold old.
C19_Original ==
    [][Visits => (Enqueues <=> Stale(Visited))]_vars

\* C19 amended (threshold rule): an iteration whose last-sync read and
\* Enqueue call succeed enqueues the listed user, with the score of factor
\* 1.0, if and only if its last-sync time is absent or at least the threshold
\* old; when the read fails the user is enqueued whatever its age, when the
\* Enqueue call fails it is not enqueued; no user is visited twice in a pass.
C19_ThresholdRule ==
    [][Visits =>
        /\ (seen'.rd /\ seen'.ok) => (Enqueues <=> Stale(Visited))
        /\ (~seen'.rd /\ seen'.ok) => Enqueues
        /\ ~seen'.ok => ~Enqueues
        /\ Enqueues =>
            /\ Visited \in Members(pending')
            /\ ScoreOf(pending', Visited) <= (4 * now) \div FactorOne
            /\ Visited \notin Members(pending) =>
                  ScoreOf(pending', Visited) = (4 * now) \div FactorOne
        /\ \A i \in 2..Len(recon.todo) : recon.todo[i] # Visited]_vars

\* C19 witness: no call has failed; a pass has skipped "a", synced less than
\* the threshold ago, and has enqueued "b", never synced, at the present
\* clock value.
C19_Witness ==
    /\ recon.pc = "wait"
    /\ failsLeft = MaxFails
    /\ lastSync["a"] # 0 /\ now - lastSync["a"] < Threshold
    /\ lastSync["b"] = 0
    /\ pending = {<<"b", (4 * now) \div FactorOne>>}
    /\ now > 1

\* two passes completed one after the other, all calls succeeding, the second
\* ending less than the threshold after the first began, every last-sync
\* time being older than the beginning of the first
TwoPasses ==
    /\ recon.pc = "wait"
    /\ prev.start # 0 /\ prev.clean /\ pass.clean
    /\ now - prev.start < Threshold
    /\ \A u \in Users : lastSync[u] < prev.start

PassBegins == svcHist'.passes > svcHist.passes
\* the step is a ListUsers call that fails
ListFails == PassBegins /\ failsLeft' < failsLeft
\* the step is an iteration of the loop in which a call fails
UserFails == recon.pc = "pass" /\ failsLeft' < failsLeft
\* the step is the last iteration of a pass
PassEnds == recon.pc = "pass" /\ recon'.pc # "pass"

\* C31 (reconciler error policy): a failed ListUsers call enqueues nobody and
\* leaves the goroutine at the select of its loop with the ticker running,
\* where a waiting tick starts a pass; the goroutine ends only on the closed
\* stop channel; an iteration in which the last-sync read or Enqueue fails
\* counts the error and goes on to the next listed user.
C31_ErrorPolicy ==
    /\ [](recon.pc = "wait" => svc.ticker)
    /\ []((recon.pc = "wait" /\ svc.tick) => ENABLED SvcPeriodic(TRUE))
    /\ [][/\ ListFails =>
              /\ pending' = pending /\ enqueueCount' = enqueueCount
              /\ recon'.pc = "wait"
          /\ (recon'.pc = "exit" /\ recon.pc # "exit") => svc.stopCh
          /\ UserFails =>
              /\ counts'.errors > counts.errors
              /\ IF Len(recon.todo) > 1
                 THEN recon'.pc = "pass" /\ recon'.todo = Tail(recon.todo)
                 ELSE recon'.pc = "wait"]_vars

\* C31 witness: the listing of the initial pass failed, a tick has started
\* the second pass, which has listed the users and enqueued nobody yet.
C31_Witness ==
    /\ svcHist.passes = 2
    /\ failsLeft = MaxFails - 1
    /\ recon.pc = "pass" /\ Len(recon.todo) = Len(UserList)
    /\ pending = {}

\* the periodic passes begun, and the ticks waiting in ticker.C
Served == IF svcHist.passes = 0 THEN 0 ELSE svcHist.passes - 1
TickWaiting == IF svc.tick THEN 1 ELSE 0
\* the initial runReplication call has returned
InitialDone == svcHist.passes >= 1 /\ ~(svcHist.passes = 1 /\ recon.pc = "pass")

\* C32 as stated (reconciler schedule): Start returns without waiting for a
\* pass, the initial pass runs before the first tick, until Stop is called
\* every tick that has fired has started exactly one pass or waits to start
\* one, and passes never overlap.
C32_Original ==
    /\ [](svcStart = "spawned" => ENABLED SvcStartReturn)
    /\ [](svcHist.ticks > 0 => InitialDone)
    /\ [](~svc.stopCh => svcHist.ticks = Served + TickWaiting)
    /\ [][PassBegins => recon.pc # "pass"]_vars

\* C32 amended (reconciler schedule): Start returns without waiting for a
\* pass, the initial pass runs before the first tick, every later pass is
\* started by the receipt of one tick, a tick that fires while an earlier one
\* still waits to be received is dropped (so that the ticks fired are the
\* periodic passes begun, the tick waiting and the ticks dropped), and passes
\* never overlap.
C32_Schedule ==
    /\ [](svcStart = "spawned" => ENABLED SvcStartReturn)
    /\ [](svcHist.ticks > 0 => InitialDone)
    /\ [](svcHist.ticks = Served + TickWaiting + svcHist.dropped)
    /\ [][PassBegins =>
            /\ recon.pc # "pass"
            /\ svcHist'.passes = svcHist.passes + 1
            /\ svcHist.passes >= 1 => (svc.tick /\ ~svc'.tick)]_vars

\* C32 witness: Start has returned, Stop was not called, the ticker fired
\* twice before the goroutine received a tick, and the one tick that was kept
\* has started the second pass, now completed: two ticks, one periodic pass.
C32_Witness ==
    /\ svcStart = "returned"
    /\ ~svc.stopCh
    /\ svcHist.ticks = 2 /\ svcHist.dropped = 1
    /\ svcHist.passes = 2
    /\ recon.pc = "wait"
    /\ ~svc.tick

\* C33 (reconciler stop): once Stop has been called on a started service no
\* runReplication call begins, a pass in progress runs to its end, and Stop
\* returns nil only when the goroutine has exited.
C33_Original ==
    /\ [][PassBegins => ~svcHist.stopped]_vars
    /\ [][recon.pc = "pass" => recon'.pc \in {"pass", "wait"}]_vars
    /\ [](\A s \in Stoppers : svcStop[s] = "nil" => recon.pc = "exit")

\* C34 (reconciler stop signal is one-shot): the stop channel is closed at
\* most once and no call of Stop panics.
C34_Original ==
    /\ svcHist.closes <= 1
    /\ \A s \in Stoppers : svcStop[s] # "panic"

\* the users of the current pass whose iteration is over
Processed == counts.listed - Len(recon.todo)

\* C40 as stated (pass counts partition the user list): when a pass is over,
\* enqueued + skipped + errors is the number of users listed.
C40_Original ==
    recon.pc # "pass" =>
        counts.enqueued + counts.skipped + counts.errors = counts.listed

\* C40 amended (pass counts): each processed user is counted once as
\* enqueued, as skipped or as an Enqueue error, and errors counts the failed
\* last-sync reads as well, the user of such a read being counted a second
\* time by what became of its Enqueue: enqueued + skipped + errors is the
\* number of users processed plus the number of failed reads, and, when the
\* pass is over, the number of users listed plus the number of failed reads.
C40_PassCounts ==
    /\ counts.reads <= counts.errors
    /\ counts.enqueued + counts.skipped + (counts.errors - counts.reads) = Processed
    /\ recon.pc # "pass" =>
          counts.enqueued + counts.skipped + counts.errors = counts.listed + counts.reads

\* C40 witness: a pass over two users is over in which "a", replicated
\* within the threshold, was skipped and the last-sync read of "b" failed,
\* "b" being enqueued: enqueued = skipped = errors = 1.
C40_Witness ==
    /\ recon.pc = "wait"
    /\ counts = [listed |-> 2, enqueued |-> 1, skipped |-> 1, errors |-> 1, reads |-> 1]
    /\ lastSync["a"] # 0
    /\ \E e \in pending : e[1] = "b"

\* ======================================================================
\* Properties of the store API (checked under SpecStore)
\* ======================================================================
\* C21 (last-sync store round trip): a GetLastReplicationTime call the store
\* answers returns the instant of the latest successful SetLastReplicationTime
\* call for that user, truncated to whole seconds, whatever was written for
\* the other user; when the key is absent (never written, or expired) it
\* returns the zero time, and a read of an absent cursor returns the empty
\* cursor, both without error.
C21_StoreRoundTrip ==
    [][answer' # answer =>
        /\ (answer'.op = "gettime" /\ ~answer'.err) =>
              answer'.val = IF wrote[answer'.user].set
                            THEN Truncate(wrote[answer'.user].t)
                            ELSE ZeroTime
        /\ (answer'.op = "getstate" /\ ~answer'.err /\ stateTtl[answer'.user] = 0) =>
              answer'.val = 0
        /\ answer'.err => answer'.val = IF answer'.op = "gettime" THEN ZeroTime ELSE 0]_vars

\* C21 witness: 10.5 s was written for "a" and 10.5 s before the epoch for
\* "b"; the read for "b" returned 11 s before the epoch.
C21_Witness ==
    /\ wrote["a"] = [set |-> TRUE, t |-> 21]
    /\ wrote["b"] = [set |-> TRUE, t |-> -21]
    /\ lastRepl["a"] = <<"1", "0">>
    /\ lastRepl["b"] = <<"-", "1", "1">>
    /\ answer = [op |-> "gettime", user |-> "b", val |-> -22, err |-> FALSE]

\* ======================================================================
\* Properties of the HTTP servers
\* ======================================================================
\* the request is not JSON or cannot be read
Malformed(r) == ~r.readable \/ ~r.json
\* a required field (event, fields.user) is missing
MissingField(r) == r.json /\ (r.event = "" \/ r.user = NoUser)
\* well-formed and complete, but of an event type or command not accepted
FilteredOut(r) == r.json /\ ~MissingField(r) /\ Filter(r) # "pass"
Accepted(r) == r.readable /\ Filter(r) = "pass"

\* C22 (POST /events status mapping): the response is 202 exactly when the
\* event passes the filter and Enqueue succeeds, 204 when the event is
\* filtered out, 400 for malformed JSON or missing required fields, 500 when
\* Enqueue fails; Enqueue is called once for an accepted event and never for
\* any other.
C22_Original ==
    resp.status # 0 =>
        /\ resp.status = 202 <=> (Accepted(resp.req) /\ resp.ok)
        /\ FilteredOut(resp.req) => resp.status = 204
        /\ (Malformed(resp.req) \/ MissingField(resp.req)) => resp.status = 400
        /\ (Accepted(resp.req) /\ ~resp.ok) => resp.status = 500
        /\ resp.calls = IF Accepted(resp.req) THEN 1 ELSE 0

\* the checks of events.Filter on a parsed event, in the order they are made,
\* and the error each one returns
FilterChecks(r) ==
    << r.event = "",
       r.event # "imap_command_finished",
       r.user = NoUser,
       ToUpper(r.cmd) \notin AcceptedCmdNames >>
FilterErrors ==
    <<"ErrEmptyEvent", "ErrInvalidEventType", "ErrEmptyUsername", "ErrInvalidCmdName">>
FailedChecks(r) == {i \in DOMAIN FilterErrors : FilterChecks(r)[i]}
TrailingSpace(str) == Len(str) > 0 /\ SubSeq(str, Len(str), Len(str)) = " "

\* C36 (event filter decision): Filter accepts a parsed event iff its event
\* type is imap_command_finished, its user is non-empty and its cmd_name,
\* upper-cased, is an accepted command; otherwise the result is nil and the
\* error is that of the first failing check in the order empty event, invalid
\* event type, empty username, invalid cmd_name; an accepted result carries
\* the cmd_name as it was sent, and a cmd_name with trailing whitespace is
\* rejected.
C36_FilterDecision ==
    (resp.status # 0 /\ resp.req.readable /\ resp.req.json) =>
        LET r == resp.req
            failed == FailedChecks(r)
        IN  /\ Filter(r) = "pass" <=>
                  /\ r.event = "imap_command_finished"
                  /\ r.user # NoUser
                  /\ ToUpper(r.cmd) \in AcceptedCmdNames
            /\ failed # {} =>
                  /\ Filter(r) =
                        FilterErrors[CHOOSE i \in failed : \A k \in failed : i <= k]
                  /\ FilteredEvent(r) = NoEvent
            /\ failed = {} =>
                  FilteredEvent(r) =
                      [Event |-> r.event, Username |-> r.user, CmdName |-> r.cmd]
            /\ TrailingSpace(r.cmd) => Filter(r) # "pass"

\* a lower-case append of user "a" was accepted and answered 202, and the
\* result carries "append"
C36_Witness ==
    /\ resp.status = 202
    /\ resp.req.cmd = "append"
    /\ resp.req.user = "a"
    /\ FilteredEvent(resp.req).CmdName = "append"
    /\ "a" \in Members(pending)

C8_BoundedStaleness ==
    \A u \in Users : Stale(u) ~> ~Stale(u)

\* C8 witness: no call has failed; "a" was synced, its last-sync time grew
\* older than the threshold and a reconciler pass has enqueued it at the
\* present clock value.
C8_Witness ==
    /\ failsLeft = MaxFails
    /\ lastSync["a"] # 0
    /\ now - lastSync["a"] >= Threshold
    /\ <<"a", Quotient(now, FactorOne)>> \in pending

====
